---- MODULE Spec2Model ----
(***************************************************************************)
(* Othello engine: bitboards, move generation, play/pop history and the    *)
(* minimax / alpha-beta search.                                            *)
(*                                                                         *)
(* Encoding of integers used as bit patterns: a Python int holding a bit   *)
(* pattern is represented by the set of the indices of its 1-bits          *)
(* (bit i is the cell x = i % size, y = i // size).  Board patterns need   *)
(* size*size >= 36 bits, more than a TLC integer holds.  With this         *)
(* encoding  a & b  is  a \cap b,  a | b  is  a \cup b,  a << k  adds k to *)
(* every index, a >> k subtracts k and drops the indices below k, and      *)
(* a == 0 is a = {}.                                                       *)
(***************************************************************************)
EXTENDS Integers, Sequences, FiniteSets, TLC

\* BoardSize.SIX_BY_SIX, the smallest accepted board size
Size == 6

\* bound on the number of operations applied after construction
MaxSteps == 3

\* coordinates tried by the callers: -1 (pass sentinel), the board, and one beyond
Coords == (0 - 1) .. Size

----------------------------------------------------------------------------
(* Color *)

BLACK == "X"
WHITE == "O"
EMPTY == "_"

\* Color.__invert__
Invert(c) == IF c = BLACK THEN WHITE ELSE IF c = WHITE THEN BLACK ELSE EMPTY

----------------------------------------------------------------------------
(* bit patterns *)

\* the one element of a singleton set. One({e : x \in {v}}) is e with x
\* standing for the value of v, computed once (a local variable of the code)
One(S) == CHOOSE v \in S : TRUE

\* bits << k
ShiftLeft(bits, k) == {i + k : i \in bits}

\* bits >> k
ShiftRight(bits, k) == {i - k : i \in {j \in bits : j >= k}}

\* BitboardProperties.get: mask, west_mask, east_mask of the size
mask == {i \in 0 .. (Size * Size - 1) : TRUE}
west_mask == {i \in 0 .. (Size * Size - 1) : i % Size # 0}
east_mask == {i \in 0 .. (Size * Size - 1) : i % Size # Size - 1}

\* Bitboard.__init__: self.bits = bits & self.mask
Bitboard(bits) == bits \cap mask

\* Bitboard.__coords_to_bit_idx
coords_to_bit_idx(x_coord, y_coord) == y_coord * Size + x_coord

\* Bitboard.__check_bit_idx_is_legal: TRUE when no IndexError is raised
check_bit_idx_is_legal(bit_idx) == 0 <= bit_idx /\ bit_idx < Size * Size

\* Bitboard.set(x, y, value) on the pattern bits: the new pattern, or the
\* raised IndexError
set(bits, x_coord, y_coord, value) ==
    LET bit_idx == coords_to_bit_idx(x_coord, y_coord) IN
    IF ~check_bit_idx_is_legal(bit_idx)
    THEN [raised |-> "IndexError", bits |-> bits]
    ELSE IF value
         THEN [raised |-> "none", bits |-> bits \cup {bit_idx}]
         ELSE [raised |-> "none", bits |-> bits \cap (mask \ {bit_idx})]

\* Bitboard.get(x, y): the masked bit (non-empty means truthy), or IndexError
get(bits, x_coord, y_coord) ==
    LET bit_idx == coords_to_bit_idx(x_coord, y_coord) IN
    IF ~check_bit_idx_is_legal(bit_idx)
    THEN [raised |-> "IndexError", rez |-> {}]
    ELSE [raised |-> "none", rez |-> bits \cap {bit_idx}]

\* Direction, in the order of the enum
Direction == <<"NORTH", "SOUTH", "EAST", "WEST",
               "NORTH_EAST", "NORTH_WEST", "SOUTH_EAST", "SOUTH_WEST">>

\* Bitboard.__shift_w .. __shift_sw
shift_w(bits) == (ShiftRight(bits, 1) \cap east_mask) \cap mask

\* a shift to the east that lets the bits of the last column into the next row
shift_e_unmasked(bits) == ShiftLeft(bits, 1) \cap mask

shift_e(bits) == (ShiftLeft(bits, 1) \cap west_mask) \cap mask

shift_n(bits) == ShiftRight(bits, Size) \cap mask
shift_s(bits) == ShiftLeft(bits, Size) \cap mask
shift_ne(bits) == (ShiftRight(bits, Size - 1) \cap west_mask) \cap mask
shift_nw(bits) == (ShiftRight(bits, Size + 1) \cap east_mask) \cap mask
shift_se(bits) == (ShiftLeft(bits, Size + 1) \cap west_mask) \cap mask
shift_sw(bits) == (ShiftLeft(bits, Size - 1) \cap east_mask) \cap mask

\* Bitboard.shift
shift(bits, to_dir) ==
    IF to_dir = "NORTH" THEN shift_n(bits)
    ELSE IF to_dir = "SOUTH" THEN shift_s(bits)
    ELSE IF to_dir = "EAST" THEN shift_e(bits)
    ELSE IF to_dir = "WEST" THEN shift_w(bits)
    ELSE IF to_dir = "NORTH_EAST" THEN shift_ne(bits)
    ELSE IF to_dir = "NORTH_WEST" THEN shift_nw(bits)
    ELSE IF to_dir = "SOUTH_EAST" THEN shift_se(bits)
    ELSE shift_sw(bits)

\* a + b on two patterns: the sum without carries plus the carries shifted
\* left, until no carry is left
RECURSIVE Add(_, _)
Add(a, b) ==
    One({IF y = {} THEN x ELSE Add((x \cup y) \ (x \cap y), ShiftLeft(x \cap y, 1))
         : x \in {a}, y \in {b}})

\* the number a pattern stands for
RECURSIVE int_of(_)
int_of(bits) ==
    One({IF s = {} THEN 0
         ELSE One({2 ^ i + int_of(s \ {i}) : i \in {CHOOSE j \in s : TRUE}})
         : s \in {bits}})

\* the masks of popcount
m0xFFFFFFFFFFFFFFFF == 0 .. 63
m0x5555555555555555 == {i \in 0 .. 63 : i % 2 = 0}
m0x3333333333333333 == {i \in 0 .. 63 : (i \div 2) % 2 = 0}
m0x0F0F0F0F0F0F0F0F == {i \in 0 .. 63 : (i \div 4) % 2 = 0}
m0x00FF00FF00FF00FF == {i \in 0 .. 63 : (i \div 8) % 2 = 0}
m0x0000FFFF0000FFFF == {i \in 0 .. 63 : (i \div 16) % 2 = 0}
m0x00000000FFFFFFFF == {i \in 0 .. 63 : (i \div 32) % 2 = 0}

\* a step of popcount that adds the whole chunk to itself shifted
swar_step_unmasked(chunk_n, m, k) ==
    One({Add(c, ShiftRight(c, k)) : c \in {chunk_n}})

\* chunk_n = (chunk_n & m) + ((chunk_n >> k) & m)
swar_step(chunk_n, m, k) ==
    One({Add(c \cap m, ShiftRight(c, k) \cap m) : c \in {chunk_n}})

\* the six steps of popcount on one 64-bit chunk
swar_chunk(chunk_n) ==
    swar_step(swar_step(swar_step(swar_step(swar_step(swar_step(chunk_n,
        m0x5555555555555555, 1), m0x3333333333333333, 2), m0x0F0F0F0F0F0F0F0F, 4),
        m0x00FF00FF00FF00FF, 8), m0x0000FFFF0000FFFF, 16), m0x00000000FFFFFFFF, 32)

\* Bitboard.popcount: the 64-bit chunks of the pattern are counted one by one
\* (remaining_bits >>= 64) and the counts summed
RECURSIVE popcount_loop(_, _)
popcount_loop(remaining_bits, summed) ==
    One({IF r = {} THEN summed
         ELSE popcount_loop(ShiftRight(r, 64),
                            summed + int_of(swar_chunk(r \cap m0xFFFFFFFFFFFFFFFF)))
         : r \in {remaining_bits}})

popcount(bits) == popcount_loop(bits, 0)

\* lowest set bit of a non-empty pattern: (bits & -bits).bit_length() - 1
LowestBit(bits) == CHOOSE i \in bits : \A j \in bits : i <= j

\* bits - 1 for a non-empty pattern: the borrow clears the lowest set bit and
\* sets every bit below it
minus_one(bits) == (bits \ {LowestBit(bits)}) \cup (0 .. (LowestBit(bits) - 1))

\* int.bit_length() of a non-empty pattern
bit_length(bits) == 1 + (CHOOSE i \in bits : \A j \in bits : j <= i)

\* Bitboard.hot_bits_coordinates: bits_copy & -bits_copy, which is
\* bits_copy & ~(bits_copy - 1), is the lowest set bit; its index gives the
\* pair (x, y); bits_copy &= bits_copy - 1 clears it
RECURSIVE hot_bits_loop(_, _)
hot_bits_loop(bits_copy, positions) ==
    One({IF c = {} THEN positions
         ELSE One({hot_bits_loop(c \cap minus_one(c),
                      Append(positions, <<position_1d % Size, position_1d \div Size>>))
                   : position_1d \in {bit_length(c \ minus_one(c)) - 1}})
         : c \in {bits_copy}})

\* the pairs as (index // size, index % size)
hot_bits_coordinates_swapped(bits) ==
    [i \in 1 .. Len(hot_bits_loop(bits, <<>>)) |->
        <<hot_bits_loop(bits, <<>>)[i][2], hot_bits_loop(bits, <<>>)[i][1]>>]

hot_bits_coordinates(bits) == hot_bits_loop(bits, <<>>)

----------------------------------------------------------------------------
(* OthelloBoard.  A board is a record                                      *)
(*   [black, white, current_player, history, forced_game_over]             *)
(* and a history entry the tuple <<black, white, x, y, player>> (the       *)
(* source's 0-based fields 2, 3, 4 are the fields 3, 4, 5 here).           *)

\* OthelloBoard.__init_board applied to two empty bitboards
init_black == set(set({}, Size \div 2 - 1, Size \div 2, TRUE).bits,
                  Size \div 2, Size \div 2 - 1, TRUE).bits
init_white == set(set({}, Size \div 2 - 1, Size \div 2 - 1, TRUE).bits,
                  Size \div 2, Size \div 2, TRUE).bits

\* OthelloBoard.__init__(size, black, white, current_player)
OthelloBoard(black_bits, white_bits, player) ==
    [black |-> Bitboard(black_bits), white |-> Bitboard(white_bits),
     current_player |-> player, history |-> <<>>, forced_game_over |-> FALSE]

\* OthelloBoard.__init__(size)
NewBoard == OthelloBoard(init_black, init_white, BLACK)

\* the inlined shifts without west_mask and east_mask on the horizontal shifts
along_unmasked(bits, d) ==
    IF d = 1 THEN ShiftRight(bits, Size) \cap mask
    ELSE IF d = 2 THEN ShiftLeft(bits, Size) \cap mask
    ELSE IF d = 3 THEN ShiftLeft(bits, 1) \cap mask
    ELSE IF d = 4 THEN ShiftRight(bits, 1) \cap mask
    ELSE IF d = 5 THEN (ShiftRight(bits, Size - 1) \cap west_mask) \cap mask
    ELSE IF d = 6 THEN (ShiftRight(bits, Size + 1) \cap east_mask) \cap mask
    ELSE IF d = 7 THEN (ShiftLeft(bits, Size + 1) \cap west_mask) \cap mask
    ELSE (ShiftLeft(bits, Size - 1) \cap east_mask) \cap mask

\* the inlined shifts of OthelloBoard.shift_along, in the order of its loops
along(bits, d) ==
    IF d = 1 THEN ShiftRight(bits, Size) \cap mask
    ELSE IF d = 2 THEN ShiftLeft(bits, Size) \cap mask
    ELSE IF d = 3 THEN (ShiftLeft(bits, 1) \cap west_mask) \cap mask
    ELSE IF d = 4 THEN (ShiftRight(bits, 1) \cap east_mask) \cap mask
    ELSE IF d = 5 THEN (ShiftRight(bits, Size - 1) \cap west_mask) \cap mask
    ELSE IF d = 6 THEN (ShiftRight(bits, Size + 1) \cap east_mask) \cap mask
    ELSE IF d = 7 THEN (ShiftLeft(bits, Size + 1) \cap west_mask) \cap mask
    ELSE (ShiftLeft(bits, Size - 1) \cap east_mask) \cap mask

\* one `while tmp:` loop of shift_along
RECURSIVE along_loop(_, _, _, _, _)
along_loop(tmp, d, bits_o, empty_bits, moves_bits) ==
    IF tmp = {} THEN moves_bits
    ELSE along_loop(bits_o \cap along(tmp, d), d, bits_o, empty_bits,
                    moves_bits \cup (empty_bits \cap along(tmp, d)))

\* the eight loops of shift_along, one after the other
RECURSIVE along_dirs(_, _, _, _, _)
along_dirs(d, bits_o, bits_p, empty_bits, moves_bits) ==
    IF d > 8 THEN moves_bits
    ELSE along_dirs(d + 1, bits_o, bits_p, empty_bits,
                    along_loop(bits_o \cap along(bits_p, d), d, bits_o, empty_bits, moves_bits))

\* OthelloBoard.shift_along
shift_along(bits_o, bits_p) ==
    LET empty_bits == (mask \ (bits_p \cup bits_o)) \cap mask IN
    along_dirs(1, bits_o, bits_p, empty_bits, {})

\* OthelloBoard.line_cap_move: the argument is compared with Color.BLACK by
\* identity, anything else selects the white bits as the player's
line_cap_move(b, player) ==
    LET bits_p == IF player = BLACK THEN b.black ELSE b.white
        bits_o == IF player = BLACK THEN b.white ELSE b.black
    IN Bitboard(shift_along(bits_o, bits_p))

\* is_game_over looking at the moves of the current player only
is_game_over_current_only(b) ==
    LET move_1 == line_cap_move(b, b.current_player)
    IN b.forced_game_over \/ popcount(move_1) = 0

\* OthelloBoard.is_game_over
is_game_over(b) ==
    LET move_1 == line_cap_move(b, b.current_player)
        move_2 == line_cap_move(b, Invert(b.current_player))
    IN b.forced_game_over \/ (popcount(move_1) = 0 /\ popcount(move_2) = 0)

\* OthelloBoard.get_turn_id
get_turn_id(b) == Len(b.history) \div 2 + 1

\* the walk of line_cap committing the run wherever it stops
RECURSIVE line_cap_walk_commit_always(_, _, _, _, _)
line_cap_walk_commit_always(direction_ptr, direction_mask, shift_dir, bits_o, bits_p) ==
    LET ptr == shift(direction_ptr, shift_dir) IN
    IF (ptr \cap bits_o) # {}
    THEN line_cap_walk_commit_always(ptr, direction_mask \cup ptr, shift_dir, bits_o, bits_p)
    ELSE direction_mask

\* the `while True` walk of line_cap in one direction: the mask to add to
\* cap_mask ({} when the run is discarded)
RECURSIVE line_cap_walk(_, _, _, _, _)
line_cap_walk(direction_ptr, direction_mask, shift_dir, bits_o, bits_p) ==
    LET ptr == shift(direction_ptr, shift_dir) IN
    IF (ptr \cap bits_o) # {}
    THEN line_cap_walk(ptr, direction_mask \cup ptr, shift_dir, bits_o, bits_p)
    ELSE IF (ptr \cap bits_p) # {} THEN direction_mask
    ELSE {}

\* a capture of the placed square alone
line_cap_position_only(b, x_coord, y_coord, player) ==
    Bitboard(set({}, x_coord, y_coord, TRUE).bits)

\* OthelloBoard.line_cap (the caller has checked that x, y is a legal index)
line_cap(b, x_coord, y_coord, player) ==
    LET bits_p == IF player = BLACK THEN b.black ELSE b.white
        bits_o == IF player = BLACK THEN b.white ELSE b.black
        position == set({}, x_coord, y_coord, TRUE).bits
    IN Bitboard(position \cup
         UNION {line_cap_walk(position, position, Direction[d], bits_o, bits_p) : d \in 1 .. 8})

\* pop without the second pop of a pass entry
pop_single(b) ==
    IF Len(b.history) <= 0 THEN [b |-> b, raised |-> "CannotPopException"]
    ELSE LET popped == b.history[Len(b.history)]
             rest == SubSeq(b.history, 1, Len(b.history) - 1)
         IN [b |-> [b EXCEPT !.history = rest, !.black = popped[1],
                             !.white = popped[2], !.current_player = popped[5]],
             raised |-> "none"]

\* OthelloBoard.pop: the board after the call and the exception raised
pop(b) ==
    IF Len(b.history) <= 0 THEN [b |-> b, raised |-> "CannotPopException"]
    ELSE LET popped == b.history[Len(b.history)]
             rest == SubSeq(b.history, 1, Len(b.history) - 1)
         IN IF popped[3] = 0 - 1 /\ popped[4] = 0 - 1
            THEN IF rest = <<>>
                 \* list.pop() on the emptied list
                 THEN [b |-> [b EXCEPT !.history = rest], raised |-> "IndexError"]
                 ELSE LET popped2 == rest[Len(rest)] IN
                      [b |-> [b EXCEPT !.history = SubSeq(rest, 1, Len(rest) - 1),
                                       !.black = popped2[1], !.white = popped2[2],
                                       !.current_player = popped2[5]],
                       raised |-> "none"]
            ELSE [b |-> [b EXCEPT !.history = rest, !.black = popped[1],
                                  !.white = popped[2], !.current_player = popped[5]],
                  raised |-> "none"]

\* apply_move without `bits_o &= ~capture_mask`
apply_move_keep_captured(b, x_coord, y_coord) ==
    LET capture_mask == line_cap(b, x_coord, y_coord, b.current_player)
        bits_p == Bitboard((IF b.current_player = BLACK THEN b.black ELSE b.white)
                             \cup capture_mask)
        bits_o == IF b.current_player = BLACK THEN b.white ELSE b.black
    IN [b EXCEPT
          !.history = Append(b.history,
                             <<b.black, b.white, x_coord, y_coord, b.current_player>>),
          !.black = IF b.current_player = BLACK THEN bits_p ELSE bits_o,
          !.white = IF b.current_player = BLACK THEN bits_o ELSE bits_p,
          !.current_player = Invert(b.current_player)]

\* play, lines 338-365: the history entry of the move, the capture and the
\* switch of the player
apply_move(b, x_coord, y_coord) ==
    LET capture_mask == line_cap(b, x_coord, y_coord, b.current_player)
        bits_p == Bitboard((IF b.current_player = BLACK THEN b.black ELSE b.white)
                             \cup capture_mask)
        bits_o == Bitboard((IF b.current_player = BLACK THEN b.white ELSE b.black)
                             \cap Bitboard(mask \ capture_mask))
    IN [b EXCEPT
          !.history = Append(b.history,
                             <<b.black, b.white, x_coord, y_coord, b.current_player>>),
          !.black = IF b.current_player = BLACK THEN bits_p ELSE bits_o,
          !.white = IF b.current_player = BLACK THEN bits_o ELSE bits_p,
          !.current_player = Invert(b.current_player)]

\* auto_pass without the second switch of the player
auto_pass_no_switch(b) ==
    IF line_cap_move(b, b.current_player) = {}
    THEN [b EXCEPT !.history = Append(b.history,
                        <<b.black, b.white, 0 - 1, 0 - 1, b.current_player>>)]
    ELSE b

\* a play that never passes for the opponent
auto_pass_never(b) == b

\* play, lines 366-377: the automatic pass of a player without legal move
auto_pass(b) ==
    IF line_cap_move(b, b.current_player) = {}
    THEN [b EXCEPT !.history = Append(b.history,
                        <<b.black, b.white, 0 - 1, 0 - 1, b.current_player>>),
                   !.current_player = Invert(b.current_player)]
    ELSE b

\* a literal pass that also hands the turn to the other color
literal_pass_switch(b) ==
    [b EXCEPT !.history = Append(b.history,
                  <<b.black, b.white, 0 - 1, 0 - 1, b.current_player>>),
              !.current_player = Invert(b.current_player)]

\* play, lines 329-331: the literal pass (-1, -1) appends one entry
literal_pass(b) ==
    [b EXCEPT !.history = Append(b.history,
                  <<b.black, b.white, 0 - 1, 0 - 1, b.current_player>>)]

\* OthelloBoard.play: the board after the call and the exception raised
play(b, x_coord, y_coord) ==
    IF x_coord = 0 - 1 /\ y_coord = 0 - 1
    THEN [b |-> literal_pass(b), raised |-> "none"]
    ELSE LET legal_moves == line_cap_move(b, b.current_player)
             move_mask == set({}, x_coord, y_coord, TRUE)
         IN IF move_mask.raised # "none" THEN [b |-> b, raised |-> move_mask.raised]
            ELSE IF (legal_moves \cap move_mask.bits) # {}
            THEN [b |-> One({auto_pass(moved) : moved \in {apply_move(b, x_coord, y_coord)}}),
                  raised |-> "none"]
            ELSE [b |-> b, raised |-> "IllegalMoveException"]

\* OthelloBoard.restart
restart(b) ==
    [b EXCEPT !.history = <<>>, !.black = init_black, !.white = init_white,
              !.current_player = BLACK]

\* OthelloBoard.force_game_over
force_game_over(b) == [b EXCEPT !.forced_game_over = TRUE]

----------------------------------------------------------------------------
(* The board as a state machine *)

\* board:  the OthelloBoard object
\* call:   the last call made on it, with its arguments
\* raised: the exception the last call raised, "none" when it returned
\* result: the value the last call returned, "None" when it returns nothing
\* steps:  the number of calls made since construction
\* controller holds the fields of the GameController of the board ("None"
\* when the board has none), stack the frames of the search calls in progress
VARIABLES board, call, raised, result, steps, controller, stack

vars == <<board, call, raised, result, steps, controller, stack>>

\* a game replayed from a new board, as a caller does with successive play()
RECURSIVE Replay(_, _)
Replay(b, moves) ==
    IF moves = <<>> THEN b
    ELSE LET r == play(b, moves[1][1], moves[1][2]) IN
         IF r.raised # "none" THEN r.b ELSE Replay(r.b, Tail(moves))

\* one move before the first automatic pass
OpeningPass == << <<2,1>>, <<1,1>>, <<0,1>>, <<0,0>>, <<4,3>>, <<2,4>>, <<2,5>> >>

\* two moves before a wipe-out
OpeningWipeOut == << <<2,1>>, <<3,1>>, <<4,1>>, <<1,1>>, <<0,1>>, <<4,2>>, <<4,3>> >>

\* four moves before the end of a full game
OpeningFull ==
    << <<2,1>>, <<3,1>>, <<4,3>>, <<3,4>>, <<4,5>>, <<5,4>>, <<5,3>>, <<3,5>>,
       <<4,4>>, <<5,2>>, <<2,5>>, <<1,4>>, <<2,4>>, <<1,1>>, <<4,2>>, <<4,1>>,
       <<0,0>>, <<0,1>>, <<1,3>>, <<0,3>>, <<4,0>>, <<1,5>>, <<0,4>>, <<5,5>>,
       <<1,2>>, <<5,0>>, <<5,1>> >>

\* the games in progress the exploration starts from
Openings == { <<>>, OpeningPass, OpeningWipeOut, OpeningFull }

Init ==
    /\ board \in {Replay(NewBoard, o) : o \in Openings}
    /\ call = [op |-> "init"]
    /\ raised = "none"
    /\ result = "None"
    /\ steps = 0
    /\ controller = "None"
    /\ stack = <<>>

\* the caller makes at most MaxSteps calls and does not catch exceptions: a
\* raised exception ends the run
Running == steps < MaxSteps /\ raised = "none"

Play(x, y) ==
    /\ Running
    /\ LET r == play(board, x, y) IN
       /\ board' = r.b
       /\ raised' = r.raised
    /\ call' = [op |-> "play", x |-> x, y |-> y]
    /\ result' = "None"
    /\ steps' = steps + 1
    /\ UNCHANGED <<controller, stack>>

Pop ==
    /\ Running
    /\ LET r == pop(board) IN
       /\ board' = r.b
       /\ raised' = r.raised
    /\ call' = [op |-> "pop"]
    /\ result' = "None"
    /\ steps' = steps + 1
    /\ UNCHANGED <<controller, stack>>

Restart ==
    /\ Running
    /\ board' = restart(board)
    /\ raised' = "none"
    /\ call' = [op |-> "restart"]
    /\ result' = "None"
    /\ steps' = steps + 1
    /\ UNCHANGED <<controller, stack>>

ForceGameOver ==
    /\ Running
    /\ board' = force_game_over(board)
    /\ raised' = "none"
    /\ call' = [op |-> "force_game_over"]
    /\ result' = "None"
    /\ steps' = steps + 1
    /\ UNCHANGED <<controller, stack>>

Next ==
    \/ \E x \in Coords, y \in Coords : Play(x, y)
    \/ Pop
    \/ Restart
    \/ ForceGameOver

Spec == Init /\ [][Next]_vars

----------------------------------------------------------------------------
(* Properties of play, pop and is_game_over *)

\* the squares of a legal-move mask as coordinate pairs
LegalSquares(b) == hot_bits_coordinates(line_cap_move(b, b.current_player))

\* black bits, white bits, current player and history length of two boards agree
SamePosition(b1, b2) ==
    /\ b1.black = b2.black
    /\ b1.white = b2.white
    /\ b1.current_player = b2.current_player
    /\ Len(b1.history) = Len(b2.history)

\* the last call was a play of a square (not the literal pass) that returned
RealPlayReturned(c, r) ==
    c.op = "play" /\ r = "none" /\ ~(c.x = 0 - 1 /\ c.y = 0 - 1)

\* C1: on every reachable board, every legal move of the side to move followed
\* by pop gives back the black bits, the white bits, the current player and the
\* history length, also when the play recorded an automatic pass; and two legal
\* plays followed by two pops give back the board before the first play
C1_PlayThenPopRestores ==
    raised = "none" =>
    \A i \in 1 .. Len(LegalSquares(board)) :
        LET m == LegalSquares(board)[i]
            played == play(board, m[1], m[2])
            popped == pop(played.b)
        IN /\ played.raised = "none"
           /\ popped.raised = "none"
           /\ SamePosition(popped.b, board)
           /\ \A j \in 1 .. Len(LegalSquares(played.b)) :
                 LET m2 == LegalSquares(played.b)[j]
                     played2 == play(played.b, m2[1], m2[2])
                     popped1 == pop(played2.b)
                     popped2 == pop(popped1.b)
                 IN /\ SamePosition(popped1.b, played.b)
                    /\ SamePosition(popped2.b, board)

\* C1 witness: the last play recorded an automatic pass and the board has a
\* legal move whose play and pop restore it
C1_Witness ==
    /\ RealPlayReturned(call, raised)
    /\ Len(board.history) >= 2
    /\ board.history[Len(board.history)][3] = 0 - 1
    /\ pop(board).raised = "none"
    /\ SamePosition(play(pop(board).b, call.x, call.y).b, board)

\* C2: no cell is owned by both colors and both bitboards lie inside the mask
C2_DisjointInsideMask ==
    /\ board.black \cap board.white = {}
    /\ board.black \ mask = {}
    /\ board.white \ mask = {}

\* C2 witness: a play has captured discs on a board that holds both colors
C2_Witness ==
    /\ RealPlayReturned(call, raised)
    /\ board.black # {}
    /\ board.white # {}
    /\ Len(board.history) >= 1

\* the square (x, y) is on the board and set in the legal-move mask of the
\* side to move
InLegalMask(b, x, y) ==
    /\ 0 <= x /\ x < Size /\ 0 <= y /\ y < Size
    /\ (y * Size + x) \in line_cap_move(b, b.current_player)

\* C5: a play of a coordinate pair other than (-1,-1) whose square is not in
\* the legal-move mask of the side to move raises IllegalMoveException and
\* leaves the board and its history unchanged
C5_IllegalMoveRejected ==
    [][ (call'.op = "play" /\ ~(call'.x = 0 - 1 /\ call'.y = 0 - 1)
           /\ ~InLegalMask(board, call'.x, call'.y))
        => (raised' = "IllegalMoveException" /\ board' = board) ]_vars

\* C6: after a play of a square by player P that returned: when the opponent
\* has a legal move in the new position one entry was pushed and the opponent
\* is to move; otherwise two entries were pushed, the move and then a pass of
\* the opponent holding the position after the move, and P is to move again
C6_PlayPushesMoveAndOnePass ==
    [][ RealPlayReturned(call', raised') =>
          LET P == board.current_player
              n == Len(board.history)
              move == <<board.black, board.white, call'.x, call'.y, P>>
          IN IF line_cap_move(board', Invert(P)) # {}
             THEN /\ board'.history = Append(board.history, move)
                  /\ board'.current_player = Invert(P)
             ELSE /\ board'.history =
                        Append(Append(board.history, move),
                               <<board'.black, board'.white, 0 - 1, 0 - 1, Invert(P)>>)
                  /\ board'.current_player = P ]_vars

\* C6 witness: a play of a square returned and recorded an automatic pass
C6_Witness ==
    /\ RealPlayReturned(call, raised)
    /\ Len(board.history) >= 2
    /\ board.history[Len(board.history)][3] = 0 - 1
    /\ board.history[Len(board.history)][5] = Invert(board.current_player)

\* C7: is_game_over is true exactly when forced_game_over is set or neither
\* Black nor White has a legal move, whoever the current player is
C7_GameOverIffForcedOrNoMoves ==
    LET both_stuck == line_cap_move(board, BLACK) = {} /\ line_cap_move(board, WHITE) = {}
        other == [board EXCEPT !.current_player = Invert(board.current_player)]
    IN /\ is_game_over(board) <=> (board.forced_game_over \/ both_stuck)
       /\ is_game_over(other) <=> is_game_over(board)

\* C7 witness: a game ended by a play, without force_game_over
C7_Witness ==
    /\ RealPlayReturned(call, raised)
    /\ ~board.forced_game_over
    /\ is_game_over(board)

\* C8: pop raises CannotPopException exactly when the history is empty, leaving
\* the board unchanged; on a non-empty history it returns, having removed the
\* top entry and one more when the top was a pass, and having restored black,
\* white and current_player from the last removed entry
C8_PopCompletes ==
    [][ call'.op = "pop" =>
          LET n == Len(board.history) IN
          IF n = 0
          THEN raised' = "CannotPopException" /\ board' = board
          ELSE LET k == IF board.history[n][3] = 0 - 1 /\ board.history[n][4] = 0 - 1
                        THEN 2 ELSE 1
               IN /\ raised' = "none"
                  /\ n >= k
                  /\ board'.history = SubSeq(board.history, 1, n - k)
                  /\ board'.black = board.history[n - k + 1][1]
                  /\ board'.white = board.history[n - k + 1][2]
                  /\ board'.current_player = board.history[n - k + 1][5] ]_vars

----------------------------------------------------------------------------
(* Move generation on constructed positions *)

\* bound on the number of discs of the sparse positions
MaxDiscs == 2

\* the sets of at most k cells
RECURSIVE CellSetsUpTo(_)
CellSetsUpTo(k) ==
    IF k = 0 THEN {{}}
    ELSE LET smaller == CellSetsUpTo(k - 1) IN
         smaller \cup {s \cup {c} : s \in smaller, c \in mask}

\* the rows, the columns and the two long diagonals
Lines ==
    {{y * Size + x : x \in 0 .. Size - 1} : y \in 0 .. Size - 1}
    \cup {{y * Size + x : y \in 0 .. Size - 1} : x \in 0 .. Size - 1}
    \cup {{i * Size + i : i \in 0 .. Size - 1},
          {i * Size + (Size - 1 - i) : i \in 0 .. Size - 1}}

\* b is a position with at most MaxDiscs discs, anywhere on the board
SparsePosition(b) ==
    \E discs \in CellSetsUpTo(MaxDiscs) : \E bs \in SUBSET discs :
        b = OthelloBoard(bs, discs \ bs, BLACK)

\* b is a position whose discs all lie on one line
LinePosition(b) ==
    \E l \in Lines : \E bs \in SUBSET l : \E ws \in SUBSET (l \ bs) :
        b = OthelloBoard(bs, ws, BLACK)

\* b is a position met along one of the three games
GamePosition(b) ==
    \E o \in Openings : \E k \in 0 .. Len(o) :
        b = Replay(NewBoard, SubSeq(o, 1, k))

\* OthelloBoard(size, black, white) is handed two disjoint bitboards
PosInit ==
    /\ \/ SparsePosition(board)
       \/ LinePosition(board)
       \/ GamePosition(board)
    /\ call = [op |-> "init"]
    /\ raised = "none"
    /\ result = "None"
    /\ steps = 0
    /\ controller = "None"
    /\ stack = <<>>

\* each run constructs one position and makes one call on it
\* board.line_cap_move(player)
LineCapMove(player) ==
    /\ call.op = "init"
    /\ call' = [op |-> "line_cap_move", player |-> player]
    /\ result' = line_cap_move(board, player)
    /\ UNCHANGED <<board, raised, steps>>
    /\ UNCHANGED <<controller, stack>>

\* board.line_cap(x, y, player), called as play does on a square of the
\* legal-move mask of the player
LineCap(x, y, player) ==
    /\ call.op = "init"
    /\ call' = [op |-> "line_cap", x |-> x, y |-> y, player |-> player]
    /\ result' = line_cap(board, x, y, player)
    /\ UNCHANGED <<board, raised, steps>>
    /\ UNCHANGED <<controller, stack>>

PosNext ==
    \/ \E player \in {BLACK, WHITE} : LineCapMove(player)
    \/ \E player \in {BLACK, WHITE} :
          \E c \in line_cap_move(board, player) : LineCap(c % Size, c \div Size, player)

SpecPos == PosInit /\ [][PosNext]_vars

\* the rule of the game, cell by cell: the cell (x, y) is on the board and
\* holds a disc of the set discs
DiscAt(discs, x, y) ==
    /\ 0 <= x /\ x < Size /\ 0 <= y /\ y < Size
    /\ (y * Size + x) \in discs

\* the eight directions as offsets
Offsets == {d \in ((0 - 1) .. 1) \X ((0 - 1) .. 1) : d # <<0, 0>>}

\* from (x, y) in direction d: k opponent discs in a row, then a disc of the player
Outflanks(bits_p, bits_o, x, y, d, k) ==
    /\ \A i \in 1 .. k : DiscAt(bits_o, x + i * d[1], y + i * d[2])
    /\ DiscAt(bits_p, x + (k + 1) * d[1], y + (k + 1) * d[2])

\* the squares where the rule allows the player to move
RuleLegal(bits_p, bits_o) ==
    {c \in mask :
        /\ c \notin bits_p \cup bits_o
        /\ \E d \in Offsets, k \in 1 .. Size :
              Outflanks(bits_p, bits_o, c % Size, c \div Size, d, k)}

\* the discs the rule turns over when the player moves to (x, y)
RuleFlipped(bits_p, bits_o, x, y) ==
    {c \in bits_o :
        \E d \in Offsets, k \in 1 .. Size, i \in 1 .. Size :
            /\ i <= k
            /\ Outflanks(bits_p, bits_o, x, y, d, k)
            /\ c % Size = x + i * d[1]
            /\ c \div Size = y + i * d[2]}

PlayerBits(b, player) == IF player = BLACK THEN b.black ELSE b.white

\* C3: the mask returned by line_cap_move(P) holds a square exactly when the
\* square is empty and, in one of the 8 directions, is followed by a run of one
\* or more opponent discs ending on a disc of P, inside the board and without
\* wrap between rows
C3_LegalMaskIsTheRule ==
    call.op = "line_cap_move" =>
        result = RuleLegal(PlayerBits(board, call.player),
                           PlayerBits(board, Invert(call.player)))

\* C3 witness: line_cap_move returned a mask with a square that outflanks a run
\* of two discs
C3_Witness ==
    /\ call.op = "line_cap_move"
    /\ \E c \in result, d \in Offsets :
          Outflanks(PlayerBits(board, call.player),
                    PlayerBits(board, Invert(call.player)), c % Size, c \div Size, d, 2)

\* C3 witness of the row boundary: the player's disc ends a row, an opponent
\* disc starts the next one, and the mask returned is empty
C3_WitnessNoWrap ==
    /\ call.op = "line_cap_move"
    /\ \E c \in PlayerBits(board, call.player) :
          /\ c % Size = Size - 1
          /\ (c + 1) \in PlayerBits(board, Invert(call.player))
    /\ result = {}

\* C4: on a square of the legal-move mask of P, line_cap returns the square
\* with exactly the opponent discs of the runs that end on a disc of P, and at
\* least one opponent disc
C4_CaptureIsTheRule ==
    call.op = "line_cap" =>
        LET bits_p == PlayerBits(board, call.player)
            bits_o == PlayerBits(board, Invert(call.player))
        IN /\ result = {call.y * Size + call.x}
                          \cup RuleFlipped(bits_p, bits_o, call.x, call.y)
           /\ result \cap bits_o # {}

\* C4 witness: line_cap returned a capture while a run in another direction,
\* ending on an empty cell or on the edge, was left alone
C4_Witness ==
    /\ call.op = "line_cap"
    /\ result \cap PlayerBits(board, Invert(call.player)) # {}
    /\ \E d \in Offsets :
          /\ DiscAt(PlayerBits(board, Invert(call.player)),
                    call.x + d[1], call.y + d[2])
          /\ ((call.y + d[2]) * Size + call.x + d[1]) \notin result

----------------------------------------------------------------------------
(* ai_features.py: heuristics, minimax, alphabeta, find_best_move.
   A call returns a record: raised is the exception that left the call
   ("none" when it returned), val the value returned, b the board as the call
   leaves it (the searches play and pop on the board they are given). *)

\* float("-inf") and float("inf"): below and above every heuristic value
NegInf == 0 - 1000000
PosInf == 1000000

\* the built-in max and min on two numbers
Max(a, b) == IF b > a THEN b ELSE a
Min(a, b) == IF b < a THEN b ELSE a

\* int(v) on a number: an infinity raises OverflowError
py_int(v) ==
    IF v = NegInf \/ v = PosInf THEN [raised |-> "OverflowError", val |-> v]
    ELSE [raised |-> "none", val |-> v]

\* 100 * n / d rounded down, not toward zero
int_percent_floor(n, d) == (100 * n) \div d

\* int(100 * n / d) for d > 0: true division, then truncation toward zero
int_percent(n, d) ==
    IF n >= 0 THEN (100 * n) \div d ELSE 0 - ((100 * (0 - n)) \div d)

\* a Bitboard handed to line_cap_move where a Color is expected: it is not
\* Color.BLACK
BitboardArgument == "Bitboard"

\* get_player_at
get_player_at(b, x_coord, y_coord) ==
    IF get(b.black, x_coord, y_coord).rez # {} THEN BLACK
    ELSE IF get(b.white, x_coord, y_coord).rez # {} THEN WHITE
    ELSE EMPTY

\* corners_captured_heuristic
corners_captured_heuristic(b, max_player) ==
    LET corners == << <<0, 0>>, <<Size - 1, 0>>, <<0, Size - 1>>, <<Size - 1, Size - 1>> >>
        max_corners == Cardinality({i \in 1 .. 4 :
            get_player_at(b, corners[i][1], corners[i][2]) = max_player})
        min_corners == Cardinality({i \in 1 .. 4 :
            get_player_at(b, corners[i][1], corners[i][2]) = Invert(max_player)})
    IN IF max_corners + min_corners # 0
       THEN [raised |-> "none",
             val |-> int_percent(max_corners - min_corners, max_corners + min_corners)]
       ELSE [raised |-> "none", val |-> 0]

\* coin_parity_heuristic
coin_parity_heuristic(b, max_player) ==
    LET black_count == popcount(b.black)
        white_count == popcount(b.white)
    IN IF max_player = BLACK
       THEN IF black_count + white_count = 0
            THEN [raised |-> "ZeroDivisionError", val |-> 0]
            ELSE [raised |-> "none",
                  val |-> int_percent(black_count - white_count, black_count + white_count)]
       ELSE IF max_player = WHITE
       THEN IF white_count + black_count = 0
            THEN [raised |-> "ZeroDivisionError", val |-> 0]
            ELSE [raised |-> "none",
                  val |-> int_percent(white_count - black_count, white_count + black_count)]
       ELSE [raised |-> "none", val |-> EMPTY]

\* mobility_heuristic: both counts come from line_cap_move called with a Bitboard
mobility_heuristic(b, max_player) ==
    LET black_move_count == popcount(line_cap_move(b, BitboardArgument))
        white_move_count == popcount(line_cap_move(b, BitboardArgument))
    IN IF black_move_count + white_move_count # 0
       THEN IF max_player = BLACK
            THEN [raised |-> "none",
                  val |-> int_percent(black_move_count - white_move_count,
                                      black_move_count + white_move_count)]
            ELSE IF max_player = WHITE
            THEN [raised |-> "none",
                  val |-> int_percent(white_move_count - black_move_count,
                                      white_move_count + black_move_count)]
            ELSE [raised |-> "none", val |-> EMPTY]
       ELSE [raised |-> "none", val |-> 0]

\* all_in_one_heuristic
all_in_one_heuristic(b, max_player) ==
    LET w_corners == 10
        w_mobility == 4
        w_coins == 1
        corners == corners_captured_heuristic(b, max_player)
        mobility == mobility_heuristic(b, max_player)
        coins == coin_parity_heuristic(b, max_player)
    IN IF corners.raised # "none" THEN corners
       ELSE IF mobility.raised # "none" THEN mobility
       ELSE IF coins.raised # "none" THEN coins
       ELSE [raised |-> "none",
             val |-> w_corners * corners.val + w_mobility * mobility.val
                     + w_coins * coins.val]

\* the names find_best_move accepts for its heuristic argument
HeuristicNames == {"corners_captured", "coin_parity", "mobility", "all_in_one"}

\* the call heuristic(board, max_player) of the heuristic function chosen by
\* find_best_move for a name
heuristic_function(heuristic, b, max_player) ==
    IF heuristic = "coin_parity" THEN coin_parity_heuristic(b, max_player)
    ELSE IF heuristic = "corners_captured" THEN corners_captured_heuristic(b, max_player)
    ELSE IF heuristic = "mobility" THEN mobility_heuristic(b, max_player)
    ELSE all_in_one_heuristic(b, max_player)

\* board.line_cap_move(board.current_player).hot_bits_coordinates()
valid_moves_of(b) == hot_bits_coordinates(line_cap_move(b, b.current_player))

\* a search that leaves the move it tried on the board
board_pop_skipped(b) == [b |-> b, raised |-> "none"]

\* the board.pop() that ends a pass through the loops of minimax and alphabeta
board_pop(b) == pop(b)

RECURSIVE minimax(_, _, _, _)
RECURSIVE minimax_loop(_, _, _, _, _, _)

\* one pass through the body of the `for move_x, move_y in valid_moves` loops
\* of minimax on the locals st (board b, evaluation val): play, recurse, fold
\* with max (maximizing) or min, pop
minimax_body(st, depth, max_player, heuristic, maximizing, move) ==
    One({
        IF played.raised # "none" THEN [st EXCEPT !.raised = played.raised, !.b = played.b]
        ELSE One({
            IF sub.raised # "none" THEN [st EXCEPT !.raised = sub.raised, !.b = sub.b]
            ELSE One({
                [raised |-> popped.raised, val |-> folded, b |-> popped.b]
              : folded \in {IF maximizing THEN Max(st.val, sub.val)
                            ELSE Min(st.val, sub.val)},
                popped \in {board_pop(sub.b)}})
          : sub \in {minimax(played.b, depth - 1, max_player, heuristic)}})
      : played \in {play(st.b, move[1], move[2])}})

\* the loops of minimax over the moves still to visit
minimax_loop(locals, depth, max_player, heuristic, maximizing, valid_moves) ==
    One({
        IF st.raised # "none" \/ valid_moves = <<>> THEN st
        ELSE minimax_loop(
                 minimax_body(st, depth, max_player, heuristic, maximizing, Head(valid_moves)),
                 depth, max_player, heuristic, maximizing, Tail(valid_moves))
      : st \in {locals}})

\* minimax(board, depth, max_player, heuristic)
minimax(b, depth, max_player, heuristic) ==
    IF depth = 0 \/ is_game_over(b)
    THEN One({[raised |-> h.raised, val |-> h.val, b |-> b]
              : h \in {heuristic_function(heuristic, b, max_player)}})
    ELSE One({
        IF valid_moves = <<>> THEN minimax(b, depth - 1, max_player, heuristic)
        ELSE IF max_player = b.current_player
        THEN minimax_loop([raised |-> "none", val |-> NegInf, b |-> b],
                          depth, max_player, heuristic, TRUE, valid_moves)
        ELSE minimax_loop([raised |-> "none", val |-> PosInf, b |-> b],
                          depth, max_player, heuristic, FALSE, valid_moves)
      : valid_moves \in {valid_moves_of(b)}})

\* a break test that holds while the window is still open
break_while_open(alpha, beta) == alpha <= beta

\* the test `beta <= alpha` that breaks out of the loops of alphabeta
break_test(alpha, beta) == beta <= alpha

RECURSIVE alphabeta(_, _, _, _, _, _)
RECURSIVE alphabeta_loop(_, _, _, _, _, _)

\* one pass through the body of the `for move_x, move_y in valid_moves` loops
\* of alphabeta on the locals st (board b, evaluation val, alpha, beta): play,
\* recurse, fold, pop, narrow alpha (maximizing) or beta through int(), break
\* when the window is closed; pruned records that a break left moves unvisited
alphabeta_body(st, depth, max_player, heuristic, maximizing, valid_moves) ==
    One({
        IF played.raised # "none" THEN [st EXCEPT !.raised = played.raised, !.b = played.b]
        ELSE One({
            IF sub.raised # "none" THEN [st EXCEPT !.raised = sub.raised, !.b = sub.b]
            ELSE One({
                IF popped.raised # "none"
                THEN [st EXCEPT !.raised = popped.raised, !.val = folded, !.b = popped.b]
                ELSE IF narrowed.raised # "none"
                THEN [st EXCEPT !.raised = narrowed.raised, !.val = folded, !.b = popped.b]
                ELSE One({
                    [raised |-> "none", val |-> folded, b |-> popped.b,
                     alpha |-> new_alpha, beta |-> new_beta,
                     broke |-> break_test(new_alpha, new_beta),
                     pruned |-> \/ st.pruned
                                \/ sub.pruned
                                \/ (break_test(new_alpha, new_beta) /\ Len(valid_moves) > 1)]
                  : new_alpha \in {IF maximizing THEN narrowed.val ELSE st.alpha},
                    new_beta \in {IF maximizing THEN st.beta ELSE narrowed.val}})
              : folded \in {IF maximizing THEN Max(st.val, sub.val)
                            ELSE Min(st.val, sub.val)},
                narrowed \in {IF maximizing
                              THEN py_int(Max(st.alpha, Max(st.val, sub.val)))
                              ELSE py_int(Min(st.beta, Min(st.val, sub.val)))},
                popped \in {board_pop(sub.b)}})
          : sub \in {alphabeta(played.b, depth - 1, st.alpha, st.beta, max_player, heuristic)}})
      : played \in {play(st.b, Head(valid_moves)[1], Head(valid_moves)[2])}})

\* the loops of alphabeta over the moves still to visit
alphabeta_loop(locals, depth, max_player, heuristic, maximizing, valid_moves) ==
    One({
        IF st.raised # "none" \/ st.broke \/ valid_moves = <<>> THEN st
        ELSE alphabeta_loop(
                 alphabeta_body(st, depth, max_player, heuristic, maximizing, valid_moves),
                 depth, max_player, heuristic, maximizing, Tail(valid_moves))
      : st \in {locals}})

\* alphabeta(board, depth, alpha, beta, max_player, heuristic)
alphabeta(b, depth, alpha, beta, max_player, heuristic) ==
    IF depth = 0 \/ is_game_over(b)
    THEN One({[raised |-> h.raised, val |-> h.val, b |-> b, pruned |-> FALSE]
              : h \in {heuristic_function(heuristic, b, max_player)}})
    ELSE One({
        IF valid_moves = <<>>
        THEN One({[raised |-> m.raised, val |-> m.val, b |-> m.b, pruned |-> FALSE]
                  : m \in {minimax(b, depth - 1, max_player, heuristic)}})
        ELSE One({[raised |-> st.raised, val |-> st.val, b |-> st.b, pruned |-> st.pruned]
                  : st \in {alphabeta_loop(
                        [raised |-> "none", b |-> b, alpha |-> alpha, beta |-> beta,
                         val |-> IF max_player = b.current_player THEN NegInf ELSE PosInf,
                         broke |-> FALSE, pruned |-> FALSE],
                        depth, max_player, heuristic, max_player = b.current_player,
                        valid_moves)}})
      : valid_moves \in {valid_moves_of(b)}})

\* a comparison that lets a later move of equal score replace the best
better_score_or_equal(score, best_score) == score >= best_score

\* the test `score > best_score` of find_best_move
better_score(score, best_score) == score > best_score

RECURSIVE find_best_move_loop(_, _, _, _, _, _, _)

\* one pass through the body of the loop of find_best_move on the locals st
\* (best_move, best_score): the move is played on new_board, a deep copy of the
\* board b, and scored at depth - 1; a strictly greater score replaces the best
find_best_move_body(st, b, depth, max_player, search_algo, heuristic, move) ==
    One({
        IF played.raised # "none" THEN [st EXCEPT !.raised = played.raised]
        ELSE One({
            IF score.raised # "none" THEN [st EXCEPT !.raised = score.raised]
            ELSE IF better_score(score.val, st.best_score)
            THEN [raised |-> "none", best_move |-> move, best_score |-> score.val]
            ELSE st
          : score \in {IF search_algo = "minimax"
                       THEN minimax(played.b, depth - 1, max_player, heuristic)
                       ELSE alphabeta(played.b, depth - 1, NegInf, PosInf,
                                      max_player, heuristic)}})
      : played \in {play(b, move[1], move[2])}})

\* the loop of find_best_move over the moves still to visit
find_best_move_loop(locals, b, depth, max_player, search_algo, heuristic, valid_moves) ==
    One({
        IF st.raised # "none" \/ valid_moves = <<>> THEN st
        ELSE find_best_move_loop(
                 find_best_move_body(st, b, depth, max_player, search_algo, heuristic,
                                     Head(valid_moves)),
                 b, depth, max_player, search_algo, heuristic, Tail(valid_moves))
      : st \in {locals}})

\* the first best_score with the two infinities exchanged
initial_best_score_swapped(max_player, current_player) ==
    IF max_player = current_player THEN PosInf ELSE NegInf

\* float("-inf") if max_player == board.current_player else float("inf")
initial_best_score(max_player, current_player) ==
    IF max_player = current_player THEN NegInf ELSE PosInf

\* find_best_move returning early on depth 0 only
find_best_move_depth_only(b, depth, max_player, search_algo, heuristic, benchmark) ==
    IF depth = 0
    THEN [raised |-> "none", val |-> <<0 - 1, 0 - 1>>, b |-> b]
    ELSE One({
        [raised |-> st.raised, val |-> st.best_move, b |-> b]
      : st \in {find_best_move_loop(
                    [raised |-> "none", best_move |-> <<0 - 1, 0 - 1>>,
                     best_score |-> initial_best_score(max_player, b.current_player)],
                    b, depth, max_player, search_algo, heuristic, valid_moves_of(b))}})

\* find_best_move(board, depth, max_player, search_algo, heuristic, benchmark)
find_best_move(b, depth, max_player, search_algo, heuristic, benchmark) ==
    IF depth = 0 \/ is_game_over(b)
    THEN [raised |-> "none", val |-> <<0 - 1, 0 - 1>>, b |-> b]
    ELSE One({
        IF st.raised # "none" THEN [raised |-> st.raised, val |-> st.best_move, b |-> b]
        ELSE IF benchmark THEN [raised |-> "NameError", val |-> st.best_move, b |-> b]
        ELSE [raised |-> "none", val |-> st.best_move, b |-> b]
      : st \in {find_best_move_loop(
                    [raised |-> "none", best_move |-> <<0 - 1, 0 - 1>>,
                     best_score |-> initial_best_score(max_player, b.current_player)],
                    b, depth, max_player, search_algo, heuristic, valid_moves_of(b))}})

----------------------------------------------------------------------------
(* The searches called on a position *)

\* the deepest search called
MaxDepth == 2

\* the names find_best_move accepts for its search_algo argument
AlgorithmNames == {"minimax", "alphabeta"}

\* the boards built by the fixtures of tests/test_ai_features.py
board_6_one_move_possible ==
    OthelloBoard({24, 25, 26, 27, 28, 30, 31, 32, 33, 34},
                 {7, 13, 19, 14, 20, 15, 21, 16}, WHITE)
board_6_test_best_moves ==
    OthelloBoard({1, 7, 13, 19, 25, 20, 15}, {14, 21}, WHITE)
\* the four starting discs stay set under the discs the fixture sets, so the
\* four centre squares are held by both colors
board_6_game_over ==
    OthelloBoard(NewBoard.black \cup {i \in mask : ((i % Size) + (i \div Size)) % 2 = 0},
                 NewBoard.white \cup {i \in mask : ((i % Size) + (i \div Size)) % 2 = 1},
                 BLACK)
board_6_empty == OthelloBoard({}, {}, BLACK)

\* b is one of the fixture boards
FixturePosition(b) ==
    b \in {board_6_one_move_possible, board_6_test_best_moves,
           board_6_game_over, board_6_empty}

\* b is built from the discs of a position met along one of the two short
\* games, with the other color to move
BuiltPosition(b) ==
    \E o \in {OpeningPass, OpeningWipeOut} : \E k \in 0 .. Len(o) :
        LET g == Replay(NewBoard, SubSeq(o, 1, k))
        IN b = OthelloBoard(g.black, g.white, Invert(g.current_player))

\* b is a position met along one of the two short games, or in the second
\* half of the third
PlayedPosition(b) ==
    \/ \E o \in {OpeningPass, OpeningWipeOut} : \E k \in 0 .. Len(o) :
          b = Replay(NewBoard, SubSeq(o, 1, k))
    \/ \E k \in (Len(OpeningFull) \div 2) .. Len(OpeningFull) :
          b = Replay(NewBoard, SubSeq(OpeningFull, 1, k))

\* the third game played on to the full board: moves that end it
Ending == << <<3, 0>>, <<0, 2>>, <<0, 5>>, <<1, 0>>, <<2, 0>> >>

\* b is a position met along the end of the third game
EndingPosition(b) ==
    \E k \in 1 .. Len(Ending) :
        b = Replay(NewBoard, OpeningFull \o SubSeq(Ending, 1, k))

\* b is a position met along one of the two short games, or along the end of
\* the third, on which force_game_over was called (the blitz clock ran out)
ForcedPosition(b) ==
    \/ \E o \in {OpeningPass, OpeningWipeOut} : \E k \in 0 .. Len(o) :
          b = force_game_over(Replay(NewBoard, SubSeq(o, 1, k)))
    \/ \E k \in 1 .. Len(Ending) :
          b = force_game_over(Replay(NewBoard, OpeningFull \o SubSeq(Ending, 1, k)))

\* a board is constructed, or a game has been played on it
SearchInit ==
    /\ \/ FixturePosition(board)
       \/ PlayedPosition(board)
       \/ BuiltPosition(board)
       \/ EndingPosition(board)
       \/ ForcedPosition(board)
    /\ call = [op |-> "init"]
    /\ raised = "none"
    /\ result = "None"
    /\ steps = 0
    /\ controller = "None"
    /\ stack = <<>>

\* minimax(board, depth, max_player, heuristic)
Minimax(depth, max_player, heuristic) ==
    /\ call.op = "init"
    /\ \E r \in {minimax(board, depth, max_player, heuristic)} :
           /\ call' = [op |-> "minimax", depth |-> depth, max_player |-> max_player,
                       heuristic |-> heuristic]
           /\ board' = r.b
           /\ raised' = r.raised
           /\ result' = IF r.raised = "none" THEN r.val ELSE "None"
           /\ UNCHANGED steps
           /\ UNCHANGED <<controller, stack>>

\* alphabeta(board, depth, float("-inf"), float("inf"), max_player, heuristic)
Alphabeta(depth, max_player, heuristic) ==
    /\ call.op = "init"
    /\ \E r \in {alphabeta(board, depth, NegInf, PosInf, max_player, heuristic)} :
           /\ call' = [op |-> "alphabeta", depth |-> depth, max_player |-> max_player,
                       heuristic |-> heuristic]
           /\ board' = r.b
           /\ raised' = r.raised
           /\ result' = IF r.raised = "none" THEN r.val ELSE "None"
           /\ UNCHANGED steps
           /\ UNCHANGED <<controller, stack>>

\* find_best_move(board, depth, max_player, search_algo, heuristic), benchmark
\* keeping its default as in the call of AIPlayer.next_move
FindBestMove(depth, max_player, search_algo, heuristic) ==
    /\ call.op = "init"
    /\ \E r \in {find_best_move(board, depth, max_player, search_algo, heuristic, FALSE)} :
           /\ call' = [op |-> "find_best_move", depth |-> depth, max_player |-> max_player,
                       search_algo |-> search_algo, heuristic |-> heuristic]
           /\ board' = r.b
           /\ raised' = r.raised
           /\ result' = IF r.raised = "none" THEN r.val ELSE "None"
           /\ UNCHANGED steps
           /\ UNCHANGED <<controller, stack>>

SearchNext ==
    \/ \E depth \in 0 .. MaxDepth, max_player \in {BLACK, WHITE}, heuristic \in HeuristicNames :
          Minimax(depth, max_player, heuristic)
    \/ \E depth \in 0 .. MaxDepth, max_player \in {BLACK, WHITE}, heuristic \in HeuristicNames :
          Alphabeta(depth, max_player, heuristic)
    \/ \E depth \in 0 .. MaxDepth, max_player \in {BLACK, WHITE},
          search_algo \in AlgorithmNames, heuristic \in HeuristicNames :
          FindBestMove(depth, max_player, search_algo, heuristic)

SpecSearch == SearchInit /\ [][SearchNext]_vars

\* C9: a call alphabeta(board, depth, -inf, +inf, color, h) with depth >= 1 ends
\* as minimax(board, depth, color, h) ends on the same board: the same score
\* returned, or the same exception, also when the side to move has no legal move
C9_AlphabetaEqualsMinimax ==
    [][(call'.op = "alphabeta" /\ call'.depth >= 1) =>
        \A m \in {minimax(board, call'.depth, call'.max_player, call'.heuristic)} :
           /\ raised' = m.raised
           /\ m.raised = "none" => result' = m.val]_vars

\* C9 witness: alphabeta returned after a break that left moves unvisited, on a
\* board where the moves of the side to move do not all get the same score
C9_Witness ==
    /\ call.op = "alphabeta"
    /\ call.depth >= 2
    /\ raised = "none"
    /\ alphabeta(board, call.depth, NegInf, PosInf, call.max_player, call.heuristic).pruned
    /\ result = minimax(board, call.depth, call.max_player, call.heuristic).val
    /\ \E i \in 1 .. Len(valid_moves_of(board)) :
          LET m == valid_moves_of(board)[i]
          IN minimax(play(board, m[1], m[2]).b, call.depth - 1, call.max_player,
                     call.heuristic).val # result

\* C9 witness: alphabeta returned on a board whose side to move has no legal
\* move while the game is not over
C9_WitnessNoMove ==
    /\ call.op = "alphabeta"
    /\ call.depth >= 1
    /\ raised = "none"
    /\ valid_moves_of(board) = <<>>
    /\ ~is_game_over(board)

\* C10 as stated: whenever the side to move has exactly one legal move,
\* find_best_move called with that side as maximizing color and a depth >= 1
\* returns that move, for both algorithms and the four heuristics; a game that
\* force_game_over ended is not set apart
C10_SingleMoveWhateverTheGame ==
    [][(/\ call'.op = "find_best_move"
        /\ call'.depth >= 1
        /\ call'.max_player = board.current_player
        /\ Len(valid_moves_of(board)) = 1)
       => (raised' = "none" /\ result' = valid_moves_of(board)[1])]_vars

\* C10 amended: when the game is not over (force_game_over was not called on
\* the board) and the side to move has exactly one legal move, find_best_move
\* called with that side as maximizing color and a depth >= 1 returns that
\* move, for both algorithms and the four heuristics
C10_SingleMoveIsReturned ==
    [][(/\ call'.op = "find_best_move"
        /\ call'.depth >= 1
        /\ call'.max_player = board.current_player
        /\ ~is_game_over(board)
        /\ Len(valid_moves_of(board)) = 1)
       => (raised' = "none" /\ result' = valid_moves_of(board)[1])]_vars

\* C10 witness: find_best_move returned the only legal move of a board, searched
\* two plies deep, whose play leaves the opponent a choice of moves
C10_Witness ==
    /\ call.op = "find_best_move"
    /\ call.depth >= 2
    /\ call.max_player = board.current_player
    /\ raised = "none"
    /\ ~is_game_over(board)
    /\ Len(valid_moves_of(board)) = 1
    /\ result = valid_moves_of(board)[1]
    /\ Len(valid_moves_of(play(board, result[1], result[2]).b)) >= 2

\* C11: find_best_move called with depth 0, or on a board whose game is over,
\* returns (-1, -1) for every algorithm, heuristic and maximizing color, and
\* leaves the board as it was
C11_SentinelAtDepthZeroOrGameOver ==
    [][(call'.op = "find_best_move" /\ (call'.depth = 0 \/ is_game_over(board)))
       => (raised' = "none" /\ result' = <<0 - 1, 0 - 1>> /\ board' = board)]_vars

\* C11 witness: find_best_move returned (-1, -1) at a depth >= 1 on a board
\* whose game was forced over while the side to move had legal moves
C11_Witness ==
    /\ call.op = "find_best_move"
    /\ call.depth >= 1
    /\ raised = "none"
    /\ result = <<0 - 1, 0 - 1>>
    /\ board.forced_game_over
    /\ call.max_player = board.current_player
    /\ valid_moves_of(board) # <<>>

\* ---------------------------------------------------------------------------
\* Bitboards of every board size: SpecPopcount

\* the values of BoardSize
BoardSizes == {6, 8, 10, 12}

\* Bitboard(size, bits): the size and the bits inside the mask of size*size
\* ones built by BitboardProperties.get
BitboardOfSize(size, bits) ==
    [size |-> size, bits |-> bits \cap {i \in 0 .. (size * size - 1) : TRUE}]

\* longest period of the bit patterns given to the constructor
MaxPeriod == 6

\* the patterns given to the constructor for a size: the bits of rows lo to
\* hi - 1 whose index modulo p is in R, up to one row beyond the board
Patterns(size) ==
    {{i \in (lo * size) .. (hi * size - 1) : (i % p) \in R} :
        lo \in 0 .. size, hi \in 0 .. (size + 1), p \in 1 .. MaxPeriod,
        R \in SUBSET (0 .. (MaxPeriod - 1))}

PopcountInit ==
    /\ \E size \in BoardSizes : \E bits \in Patterns(size) :
           board = BitboardOfSize(size, bits)
    /\ call = [op |-> "init"]
    /\ raised = "none"
    /\ result = "None"
    /\ steps = 0
    /\ controller = "None"
    /\ stack = <<>>

\* a call of popcount() on the bitboard
Popcount ==
    /\ call.op = "init"
    /\ call' = [op |-> "popcount"]
    /\ result' = popcount(board.bits)
    /\ UNCHANGED <<board, raised, steps>>
    /\ UNCHANGED <<controller, stack>>

PopcountNext == Popcount

SpecPopcount == PopcountInit /\ [][PopcountNext]_vars

\* C12: popcount() returns the number of 1-bits of the bitboard, for every
\* board size and bit pattern, those wider than 64 bits included, and leaves
\* the bitboard as it was
C12_PopcountIsNumberOfOnes ==
    call.op = "popcount" =>
        /\ result = Cardinality(board.bits)
        /\ board.bits \subseteq 0 .. (board.size * board.size - 1)

\* C12 witness: popcount counted a bitboard of size 12 with more than 64 bits
\* set, some in each of its three 64-bit chunks, and some bits clear
C12_Witness ==
    /\ call.op = "popcount"
    /\ board.size = 12
    /\ result > 64
    /\ result < 144
    /\ result = Cardinality(board.bits)
    /\ \A c \in 0 .. 2 : \E i \in board.bits : i \div 64 = c

\* ---------------------------------------------------------------------------
\* The operations of one bitboard: SpecBits

\* how far beyond the board the coordinates given to get and set go
MaxOff == 2

\* the coordinates given to get and set
AnyCoords == (0 - MaxOff) .. (Size - 1 + MaxOff)

BitsInit ==
    /\ \E bits \in Patterns(Size) : board = BitboardOfSize(Size, bits)
    /\ call = [op |-> "init"]
    /\ raised = "none"
    /\ result = "None"
    /\ steps = 0
    /\ controller = "None"
    /\ stack = <<>>

\* a call of set(x, y, value)
Set(x, y, value) ==
    /\ call.op = "init"
    /\ \E r \in {set(board.bits, x, y, value)} :
          /\ call' = [op |-> "set", x |-> x, y |-> y, value |-> value]
          /\ board' = [board EXCEPT !.bits = r.bits]
          /\ raised' = r.raised
    /\ UNCHANGED <<result, steps>>
    /\ UNCHANGED <<controller, stack>>

\* a call of get(x, y): the result is the pattern of the returned number
Get(x, y) ==
    /\ call.op = "init"
    /\ \E r \in {get(board.bits, x, y)} :
          /\ call' = [op |-> "get", x |-> x, y |-> y]
          /\ raised' = r.raised
          /\ result' = IF r.raised = "none" THEN r.rez ELSE "None"
    /\ UNCHANGED <<board, steps>>
    /\ UNCHANGED <<controller, stack>>

\* a call of shift(to_dir): the result is the pattern of the returned bitboard
Shift(to_dir) ==
    /\ call.op = "init"
    /\ call' = [op |-> "shift", to_dir |-> to_dir]
    /\ result' = shift(board.bits, to_dir)
    /\ UNCHANGED <<board, raised, steps>>
    /\ UNCHANGED <<controller, stack>>

\* a call of hot_bits_coordinates()
HotBitsCoordinates ==
    /\ call.op = "init"
    /\ call' = [op |-> "hot_bits_coordinates"]
    /\ result' = hot_bits_coordinates(board.bits)
    /\ UNCHANGED <<board, raised, steps>>
    /\ UNCHANGED <<controller, stack>>

BitsNext ==
    \/ \E x \in AnyCoords, y \in AnyCoords, value \in BOOLEAN : Set(x, y, value)
    \/ \E x \in AnyCoords, y \in AnyCoords : Get(x, y)
    \/ \E i \in 1 .. Len(Direction) : Shift(Direction[i])
    \/ HotBitsCoordinates

SpecBits == BitsInit /\ [][BitsNext]_vars

\* C13: get(x, y) and set(x, y, v) with x or y outside 0 .. size - 1 raise the
\* out-of-bounds error (IndexError) and leave the bits unchanged
C13_OffBoardRaises ==
    [][(/\ call'.op \in {"get", "set"}
        /\ ~(call'.x \in 0 .. (Size - 1) /\ call'.y \in 0 .. (Size - 1)))
       => (raised' = "IndexError" /\ board' = board)]_vars

\* the offset (dx, dy) of a direction: north is up (y - 1), east is right (x + 1)
DirectionOffset(to_dir) ==
    IF to_dir = "NORTH" THEN <<0, 0 - 1>>
    ELSE IF to_dir = "SOUTH" THEN <<0, 1>>
    ELSE IF to_dir = "EAST" THEN <<1, 0>>
    ELSE IF to_dir = "WEST" THEN <<0 - 1, 0>>
    ELSE IF to_dir = "NORTH_EAST" THEN <<1, 0 - 1>>
    ELSE IF to_dir = "NORTH_WEST" THEN <<0 - 1, 0 - 1>>
    ELSE IF to_dir = "SOUTH_EAST" THEN <<1, 1>>
    ELSE <<0 - 1, 1>>

\* the cells (x + dx, y + dy) of the board whose cell (x, y) is set in bits
MovedCells(bits, d) ==
    {c \in mask : DiscAt(bits, (c % Size) - d[1], (c \div Size) - d[2])}

\* C14: shift(direction) has the bit at (x + dx, y + dy) set exactly when the
\* input has the bit at (x, y) set and (x + dx, y + dy) is on the board, so no
\* bit wraps into another row and bits leaving the board are dropped; the
\* input bitboard is not modified
C14_ShiftMovesEveryBit ==
    [][call'.op = "shift"
       => (/\ result' = MovedCells(board.bits, DirectionOffset(call'.to_dir))
           /\ board' = board
           /\ raised' = "none")]_vars

\* C14 witness: a shift to the east of a bitboard with a bit in the last
\* column of a row that is not the last, which is dropped and not wrapped into
\* the next row, and a bit elsewhere that moved
C14_Witness ==
    /\ call.op = "shift"
    /\ call.to_dir = "EAST"
    /\ \E y \in 0 .. (Size - 2) :
          /\ (y * Size + Size - 1) \in board.bits
          /\ ((y + 1) * Size) \notin result
    /\ \E c \in board.bits : c % Size < Size - 1 /\ (c + 1) \in result

\* C15: hot_bits_coordinates() returns one pair (index % size, index // size)
\* per set bit and nothing else, in strictly ascending order of the bit index,
\* so its length is popcount(); the bitboard is unchanged
C15_HotBitsAscending ==
    [][call'.op = "hot_bits_coordinates"
       => (LET n == Len(result')
               index(i) == result'[i][2] * Size + result'[i][1]
           IN /\ raised' = "none"
              /\ board' = board
              /\ n = popcount(board.bits)
              /\ \A i \in 1 .. n : /\ result'[i][1] \in 0 .. (Size - 1)
                                   /\ result'[i][2] \in 0 .. (Size - 1)
              /\ {index(i) : i \in 1 .. n} = board.bits
              /\ \A i \in 1 .. (n - 1) : index(i) < index(i + 1))]_vars

\* C15 witness: the coordinates of a bitboard with at least three set bits, in
\* different rows and different columns, the first of them not at (0, 0)
C15_Witness ==
    /\ call.op = "hot_bits_coordinates"
    /\ Len(result) >= 3
    /\ Len(result) = Cardinality(board.bits)
    /\ result[1] # <<0, 0>>
    /\ result[1][2] < result[2][2]
    /\ result[2][1] < result[1][1]
    /\ result[2][2] < result[3][2]

\* ---------------------------------------------------------------------------
\* The heuristics on a position: SpecHeuristic

\* a board is constructed, or a game has been played on it
HeuristicInit ==
    /\ \/ FixturePosition(board)
       \/ PlayedPosition(board)
       \/ BuiltPosition(board)
       \/ EndingPosition(board)
       \/ LinePosition(board)
    /\ call = [op |-> "init"]
    /\ raised = "none"
    /\ result = "None"
    /\ steps = 0
    /\ controller = "None"
    /\ stack = <<>>

\* heuristic(board, max_player) for one of the four heuristics
Heuristic(heuristic, max_player) ==
    /\ call.op = "init"
    /\ \E r \in {heuristic_function(heuristic, board, max_player)} :
          /\ call' = [op |-> "heuristic", heuristic |-> heuristic,
                      max_player |-> max_player]
          /\ raised' = r.raised
          /\ result' = IF r.raised = "none" THEN r.val ELSE "None"
    /\ UNCHANGED <<board, steps>>
    /\ UNCHANGED <<controller, stack>>

HeuristicNext ==
    \E heuristic \in HeuristicNames, max_player \in {BLACK, WHITE} :
        Heuristic(heuristic, max_player)

SpecHeuristic == HeuristicInit /\ [][HeuristicNext]_vars

\* round(100 * n / d) for d > 0: the nearest integer, a half to the even one
round_percent(n, d) ==
    LET q == (100 * n) \div d
        r == (100 * n) - q * d
    IN IF 2 * r < d THEN q
       ELSE IF 2 * r > d THEN q + 1
       ELSE IF q % 2 = 0 THEN q ELSE q + 1

\* C16: coin_parity_heuristic returns 0 when the board holds no disc, and
\* otherwise round(100 * (n_p - n_o) / (n_p + n_o)) with the disc counts of the
\* color and of its opponent
C16_CoinParityIsRoundedShare ==
    (call.op = "heuristic" /\ call.heuristic = "coin_parity") =>
        LET n_p == Cardinality(PlayerBits(board, call.max_player))
            n_o == Cardinality(PlayerBits(board, Invert(call.max_player)))
        IN /\ raised = "none"
           /\ result = IF n_p + n_o = 0 THEN 0
                       ELSE round_percent(n_p - n_o, n_p + n_o)

\* C17: mobility_heuristic returns round(100 * (m_p - m_o) / (m_p + m_o)) with
\* the numbers of squares in the legal-move masks of the color and of its
\* opponent, and 0 when both are zero
C17_MobilityIsRoundedShare ==
    (call.op = "heuristic" /\ call.heuristic = "mobility") =>
        LET m_p == Cardinality(line_cap_move(board, call.max_player))
            m_o == Cardinality(line_cap_move(board, Invert(call.max_player)))
        IN /\ raised = "none"
           /\ result = IF m_p + m_o = 0 THEN 0
                       ELSE round_percent(m_p - m_o, m_p + m_o)

\* C18: on a position with at least one disc, each of the four heuristics
\* returns for White the opposite of what it returns for Black, and
\* corners_captured, coin_parity and mobility stay within -100 .. 100
C18_HeuristicsAntisymmetric ==
    (call.op = "heuristic" /\ board.black \cup board.white # {}) =>
        \A other \in {heuristic_function(call.heuristic, board, Invert(call.max_player))} :
            /\ raised = "none"
            /\ other.raised = "none"
            /\ other.val = 0 - result
            /\ call.heuristic # "all_in_one" => (0 - 100 <= result /\ result <= 100)

\* C18 witness: coin_parity returned for White a negative share that the
\* division does not give exactly, on a position where a corner is taken
C18_Witness ==
    /\ call.op = "heuristic"
    /\ call.heuristic = "coin_parity"
    /\ call.max_player = WHITE
    /\ raised = "none"
    /\ result < 0
    /\ result > 0 - 100
    /\ (100 * (Cardinality(board.black) - Cardinality(board.white)))
           % Cardinality(board.black \cup board.white) # 0
    /\ 0 \in board.black \cup board.white
    /\ coin_parity_heuristic(board, BLACK).val = 0 - result

\* ---------------------------------------------------------------------------
\* Board sizes at construction: SpecSize

\* largest value given to from_value and largest side of a bitboard given to
\* the constructor
MaxSide == 14

\* BoardSize.from_value
from_value(value) ==
    IF value \in BoardSizes
    THEN [raised |-> "none", size |-> value]
    ELSE [raised |-> "IllegalBoardSizeException", size |-> "None"]

\* OthelloBoard(size, black, white): the sizes of the two bitboards are
\* compared with the size of the board; the argument of the exception is
\* black.size.value when black's size differs, and black.size is an int
OthelloBoardOfSize(size, black, white) ==
    IF size # black.size \/ size # white.size
    THEN IF size # black.size
         THEN [raised |-> "AttributeError", b |-> "None"]
         ELSE [raised |-> "IllegalBoardSizeException", b |-> "None"]
    ELSE [raised |-> "none",
          b |-> [size |-> size, black |-> black, white |-> white,
                 current_player |-> BLACK, history |-> <<>>,
                 forced_game_over |-> FALSE]]

\* nothing is constructed yet
SizeInit ==
    /\ board = "None"
    /\ call = [op |-> "init"]
    /\ raised = "none"
    /\ result = "None"
    /\ steps = 0
    /\ controller = "None"
    /\ stack = <<>>

\* BoardSize.from_value(value)
FromValue(value) ==
    /\ call.op = "init"
    /\ \E r \in {from_value(value)} :
          /\ call' = [op |-> "from_value", value |-> value]
          /\ raised' = r.raised
          /\ result' = r.size
    /\ UNCHANGED <<board, steps>>
    /\ UNCHANGED <<controller, stack>>

\* OthelloBoard(size, black=Bitboard(black_size), white=Bitboard(white_size))
Construct(size, black_size, white_size) ==
    /\ call.op = "init"
    /\ \E r \in {OthelloBoardOfSize(size, BitboardOfSize(black_size, {}),
                                    BitboardOfSize(white_size, {}))} :
          /\ call' = [op |-> "OthelloBoard", size |-> size,
                      black_size |-> black_size, white_size |-> white_size]
          /\ raised' = r.raised
          /\ board' = r.b
    /\ UNCHANGED <<result, steps>>
    /\ UNCHANGED <<controller, stack>>

SizeNext ==
    \/ \E value \in (0 - MaxSide) .. MaxSide : FromValue(value)
    \/ \E size \in BoardSizes, black_size \in 1 .. MaxSide, white_size \in 1 .. MaxSide :
          Construct(size, black_size, white_size)

SpecSize == SizeInit /\ [][SizeNext]_vars

\* C19: BoardSize.from_value(v) succeeds exactly for v in {6, 8, 10, 12} and
\* fails with IllegalBoardSizeException otherwise; OthelloBoard(size, black,
\* white) fails with IllegalBoardSizeException whenever the black or the white
\* bitboard has a size other than the board's
C19_IllegalSizesRejected ==
    /\ call.op = "from_value" =>
          IF call.value \in {6, 8, 10, 12}
          THEN raised = "none" /\ result = call.value
          ELSE raised = "IllegalBoardSizeException"
    /\ (/\ call.op = "OthelloBoard"
        /\ (call.black_size # call.size \/ call.white_size # call.size))
       => raised = "IllegalBoardSizeException"

\* ---------------------------------------------------------------------------
\* C20: after any sequence of play, pop and force_game_over calls, restart()
\* leaves the board as a newly constructed one: the four centre discs, Black
\* to move, an empty history (get_turn_id() is 1 and pop() raises
\* CannotPopException) and is_game_over() false
C20_RestartGivesNewBoard ==
    call.op = "restart" =>
        /\ board.black = init_black
        /\ board.white = init_white
        /\ board.current_player = BLACK
        /\ board.history = <<>>
        /\ get_turn_id(board) = 1
        /\ pop(board).raised = "CannotPopException"
        /\ ~is_game_over(board)

\* ---------------------------------------------------------------------------
\* C21: play(-1, -1) in any state returns, appends exactly one pass entry
\* holding the black and white bits and the current player of that state, and
\* leaves black, white and current_player unchanged, whether or not the
\* current player has legal moves
C21_LiteralPassAppendsOneEntry ==
    [][(call'.op = "play" /\ call'.x = 0 - 1 /\ call'.y = 0 - 1)
       => (/\ raised' = "none"
           /\ board'.history = Append(board.history,
                  <<board.black, board.white, 0 - 1, 0 - 1, board.current_player>>)
           /\ board'.black = board.black
           /\ board'.white = board.white
           /\ board'.current_player = board.current_player
           /\ board'.forced_game_over = board.forced_game_over)]_vars

\* C21 witness: a literal pass made, after a real play, by a player who has
\* legal moves
C21_Witness ==
    /\ call.op = "play"
    /\ call.x = 0 - 1
    /\ call.y = 0 - 1
    /\ raised = "none"
    /\ Len(board.history) >= 2
    /\ board.history[Len(board.history)] =
           <<board.black, board.white, 0 - 1, 0 - 1, board.current_player>>
    /\ board.history[Len(board.history) - 1][3] >= 0
    /\ line_cap_move(board, board.current_player) # {}

\* C21 witness: a literal pass made by a player who has no legal move
C21_WitnessNoMove ==
    /\ call.op = "play"
    /\ call.x = 0 - 1
    /\ call.y = 0 - 1
    /\ raised = "none"
    /\ board.history # <<>>
    /\ line_cap_move(board, board.current_player) = {}

\* ---------------------------------------------------------------------------
\* The searches with any window: SpecWindow

\* the bounds given to alphabeta as alpha and beta
WindowBounds == {NegInf, 0 - 30, 0, 30, PosInf}

\* b is a position met along one of the two short games
ShortGamePosition(b) ==
    \E o \in {OpeningPass, OpeningWipeOut} : \E k \in 0 .. Len(o) :
        b = Replay(NewBoard, SubSeq(o, 1, k))

\* a board is constructed, or a game has been played on it
WindowInit ==
    /\ \/ FixturePosition(board)
       \/ ShortGamePosition(board)
       \/ BuiltPosition(board)
       \/ EndingPosition(board)
       \/ ForcedPosition(board)
    /\ call = [op |-> "init"]
    /\ raised = "none"
    /\ result = "None"
    /\ steps = 0
    /\ controller = "None"
    /\ stack = <<>>

\* alphabeta(board, depth, alpha, beta, max_player, heuristic)
AlphabetaWindow(depth, alpha, beta, max_player, heuristic) ==
    /\ call.op = "init"
    /\ \E r \in {alphabeta(board, depth, alpha, beta, max_player, heuristic)} :
           /\ call' = [op |-> "alphabeta", depth |-> depth, alpha |-> alpha,
                       beta |-> beta, max_player |-> max_player,
                       heuristic |-> heuristic, pruned |-> r.pruned]
           /\ board' = r.b
           /\ raised' = r.raised
           /\ result' = IF r.raised = "none" THEN r.val ELSE "None"
           /\ UNCHANGED steps
           /\ UNCHANGED <<controller, stack>>

WindowNext ==
    \/ \E depth \in 0 .. MaxDepth, max_player \in {BLACK, WHITE}, heuristic \in HeuristicNames :
          Minimax(depth, max_player, heuristic)
    \/ \E depth \in 0 .. MaxDepth, alpha \in WindowBounds, beta \in WindowBounds,
          max_player \in {BLACK, WHITE}, heuristic \in HeuristicNames :
          alpha <= beta /\ AlphabetaWindow(depth, alpha, beta, max_player, heuristic)
    \/ \E depth \in 0 .. MaxDepth, max_player \in {BLACK, WHITE},
          search_algo \in AlgorithmNames, heuristic \in HeuristicNames :
          FindBestMove(depth, max_player, search_algo, heuristic)

SpecWindow == WindowInit /\ [][WindowNext]_vars

\* C22: when minimax or alphabeta returns, for any depth and window and also
\* when a pruning break skipped siblings, the board's black, white,
\* current_player and history are what they were at the call; find_best_move
\* never modifies the board passed to it
C22_SearchLeavesBoard ==
    [][(\/ call'.op \in {"minimax", "alphabeta"} /\ raised' = "none"
        \/ call'.op = "find_best_move")
       => (/\ board'.black = board.black
           /\ board'.white = board.white
           /\ board'.current_player = board.current_player
           /\ board'.history = board.history)]_vars

\* C22 witness: alphabeta returned from a search two plies deep or more, with
\* a window other than the full one, after a break left siblings unvisited,
\* on a board with a history
C22_Witness ==
    /\ call.op = "alphabeta"
    /\ call.depth >= 2
    /\ call.alpha # NegInf
    /\ call.pruned
    /\ raised = "none"
    /\ board.history # <<>>
    /\ ~is_game_over(board)

\* C23: when the maximizing color is the side to move, the game is not over
\* and depth >= 1, find_best_move returns, among the legal moves whose
\* resulting position has the greatest minimax value at depth - 1, the one with
\* the lowest bit index, for both algorithms and the four heuristics
C23_FirstBestMove ==
    [][(/\ call'.op = "find_best_move"
        /\ call'.depth >= 1
        /\ call'.max_player = board.current_player
        /\ ~is_game_over(board)
        /\ line_cap_move(board, board.current_player) # {})
       => \A value \in {[c \in line_cap_move(board, board.current_player) |->
                           minimax(play(board, c % Size, c \div Size).b,
                                   call'.depth - 1, call'.max_player,
                                   call'.heuristic).val]} :
             \E c \in DOMAIN value :
                /\ \A o \in DOMAIN value :
                      value[o] < value[c] \/ (value[o] = value[c] /\ c <= o)
                /\ raised' = "none"
                /\ result' = <<c % Size, c \div Size>>]_vars

\* C23 witness: find_best_move, two plies deep or more, returned a move that is
\* not the first legal move, while a later legal move has the same value
C23_Witness ==
    /\ call.op = "find_best_move"
    /\ call.depth >= 2
    /\ call.max_player = board.current_player
    /\ raised = "none"
    /\ ~is_game_over(board)
    /\ Len(valid_moves_of(board)) >= 3
    /\ result # valid_moves_of(board)[1]
    /\ \E i \in 1 .. Len(valid_moves_of(board)) :
          /\ valid_moves_of(board)[i] # result
          /\ valid_moves_of(board)[i][2] * Size + valid_moves_of(board)[i][1]
                 > result[2] * Size + result[1]
          /\ minimax(play(board, valid_moves_of(board)[i][1], valid_moves_of(board)[i][2]).b,
                     call.depth - 1, call.max_player, call.heuristic).val
             = minimax(play(board, result[1], result[2]).b,
                       call.depth - 1, call.max_player, call.heuristic).val

\* C25: in every state reached by a successful real play, the current player
\* has at least one legal move or is_game_over() is true, so the side to move
\* of a position met in a search is never stuck while the game goes on
C25_MoverNeverStuck ==
    RealPlayReturned(call, raised) =>
        \/ line_cap_move(board, board.current_player) # {}
        \/ is_game_over(board)

\* C25 witness: a real play after which the opponent had no legal move and was
\* passed for, the game going on with the player who moved
C25_Witness ==
    /\ RealPlayReturned(call, raised)
    /\ ~is_game_over(board)
    /\ board.history[Len(board.history)][3] = 0 - 1
    /\ board.history[Len(board.history)][4] = 0 - 1
    /\ line_cap_move(board, Invert(board.current_player)) = {}
    /\ line_cap_move(board, board.current_player) # {}

\* C26: whenever depth >= 1, the game is not over and the side to move has a
\* legal move, find_best_move returns a square of the legal-move mask of the
\* side to move, never (-1, -1), whether or not the maximizing color is the
\* side to move
C26_ReturnsLegalMove ==
    [][(/\ call'.op = "find_best_move"
        /\ call'.depth >= 1
        /\ ~is_game_over(board)
        /\ line_cap_move(board, board.current_player) # {})
       => (/\ raised' = "none"
           /\ InLegalMask(board, result'[1], result'[2]))]_vars

\* C27: for every position, depth and window alpha <= beta with integer or
\* infinite bounds, v being what minimax returns for the position, depth, color
\* and heuristic: alphabeta returns v when alpha < v < beta, a value <= alpha
\* when v <= alpha and a value >= beta when v >= beta
C27_AlphabetaWithinWindow ==
    [][call'.op = "alphabeta"
       => \A m \in {minimax(board, call'.depth, call'.max_player, call'.heuristic)} :
             m.raised = "none" =>
                /\ raised' = "none"
                /\ (call'.alpha < m.val /\ m.val < call'.beta) => result' = m.val
                /\ m.val <= call'.alpha => result' <= call'.alpha
                /\ m.val >= call'.beta => result' >= call'.beta]_vars

\* C28: every successful real play adds exactly one disc: the placed square was
\* empty, the mover gains k + 1 discs and the opponent loses k discs for some
\* k >= 1, and the pass recorded for the opponent holds the discs as the move
\* left them; a literal pass changes no disc
C28_PlayAddsOneDisc ==
    [][(call'.op = "play" /\ raised' = "none")
       => IF call'.x = 0 - 1 /\ call'.y = 0 - 1
          THEN board'.black = board.black /\ board'.white = board.white
          ELSE LET P == board.current_player
                   placed == coords_to_bit_idx(call'.x, call'.y)
                   k == Cardinality(PlayerBits(board, Invert(P)))
                        - Cardinality(PlayerBits(board', Invert(P)))
                   last == board'.history[Len(board'.history)]
               IN /\ placed \notin board.black \cup board.white
                  /\ placed \in PlayerBits(board', P)
                  /\ k >= 1
                  /\ Cardinality(PlayerBits(board', P))
                         = Cardinality(PlayerBits(board, P)) + k + 1
                  /\ Cardinality(board'.black \cup board'.white)
                         = Cardinality(board.black \cup board.white) + 1
                  /\ board'.black \cap board'.white = {}
                  /\ (last[3] = 0 - 1 /\ last[4] = 0 - 1)
                         => (last[1] = board'.black /\ last[2] = board'.white)]_vars

\* C28 witness: a real play that flipped discs in more than one direction,
\* three or more in all, and was followed by an automatic pass
C28_Witness ==
    /\ RealPlayReturned(call, raised)
    /\ Len(board.history) >= 2
    /\ board.history[Len(board.history)][3] = 0 - 1
    /\ board.history[Len(board.history)][4] = 0 - 1
    /\ LET entry == board.history[Len(board.history) - 1]
           P == entry[5]
           before == IF P = BLACK THEN entry[2] ELSE entry[1]
       IN /\ entry[3] = call.x
          /\ entry[4] = call.y
          /\ Cardinality(before) - Cardinality(PlayerBits(board, Invert(P))) >= 3

----------------------------------------------------------------------------
(* The save format: export_history and the history section of BoardParser.
   A text is a sequence of characters. *)

\* the characters chr(ord("a")) .. chr(ord("a") + 13)
Alphabet == <<"a", "b", "c", "d", "e", "f", "g", "h", "i", "j", "k", "l", "m", "n">>

\* chr(ord("a") + k), for the columns k >= 0
chr_from_a(k) == Alphabet[k + 1]

\* ord(c) - ord("a")
ord_from_a(c) == (CHOOSE i \in 1 .. Len(Alphabet) : Alphabet[i] = c) - 1

Digits == <<"0", "1", "2", "3", "4", "5", "6", "7", "8", "9">>

is_digit(c) == \E i \in 1 .. Len(Digits) : Digits[i] = c

digit_value(c) == (CHOOSE i \in 1 .. Len(Digits) : Digits[i] = c) - 1

\* the decimal text an f-string gives an int
RECURSIVE format_nat(_)
format_nat(n) ==
    IF n < 10 THEN <<Digits[n + 1]>>
    ELSE Append(format_nat(n \div 10), Digits[(n % 10) + 1])

format_int(n) == IF n < 0 THEN <<"-">> \o format_nat(0 - n) ELSE format_nat(n)

\* int() of a text of digits
RECURSIVE int_of_digits(_)
int_of_digits(text) ==
    IF text = <<>> THEN 0
    ELSE 10 * int_of_digits(SubSeq(text, 1, Len(text) - 1)) + digit_value(text[Len(text)])

\* text[m - 1 : n] of Python: the characters m .. n that exist
slice(text, m, n) == SubSeq(text, m, IF n > Len(text) THEN Len(text) ELSE n)

empty_move_str == <<"-", "1", "-", "1">>

\* OthelloBoard.move_to_str
move_to_str(move) ==
    IF move[3] = 0 - 1 /\ move[4] = 0 - 1 THEN empty_move_str
    ELSE <<chr_from_a(move[3])>> \o format_int(move[4] + 1)

\* the body of the loop of export_history for the entry of index move_index
export_history_entry(export_str, move_index, move) ==
    IF move[5] = BLACK
    THEN export_str \o format_int(move_index \div 2 + 1) \o <<".", " ", "X", " ">>
                    \o move_to_str(move)
    ELSE (IF move_index % 2 = 0
          THEN export_str \o format_int(move_index \div 2 + 1)
                          \o <<".", " ", "X", " ">> \o empty_move_str
          ELSE export_str)
         \o <<" ", "O", " ">> \o move_to_str(move) \o <<"\n">>

RECURSIVE export_history_loop(_, _, _)
export_history_loop(history, move_index, export_str) ==
    IF move_index >= Len(history) THEN export_str
    ELSE One({export_history_loop(history, move_index + 1, next_str) :
                next_str \in {export_history_entry(export_str, move_index,
                                                   history[move_index + 1])}})

\* OthelloBoard.export_history
export_history(b) ==
    export_history_loop(b.history, 0,
                        <<"#", " ", "h", "i", "s", "t", "o", "r", "y", "\n">>)

\* raw_save.split("\n")
RECURSIVE split(_)
split(text) ==
    IF \A i \in 1 .. Len(text) : text[i] # "\n" THEN <<text>>
    ELSE One({<<SubSeq(text, 1, i - 1)>> \o split(SubSeq(text, i + 1, Len(text))) :
                i \in {j \in 1 .. Len(text) :
                         text[j] = "\n" /\ \A k \in 1 .. j - 1 : text[k] # "\n"}})

\* the characters of a line the parser reads: __skip_spaces, then up to the
\* end of the line or the comment character (__eol)
read_line(line) ==
    LET first == CHOOSE i \in 1 .. Len(line) + 1 :
                     /\ i = Len(line) + 1 \/ line[i] # " "
                     /\ \A j \in 1 .. i - 1 : line[j] = " "
        last == CHOOSE i \in first - 1 .. Len(line) :
                     /\ i = Len(line) \/ line[i + 1] = "#"
                     /\ \A j \in first .. i : line[j] # "#"
    IN SubSeq(line, first, last)

\* the character class [a-{chr(ord("a") + size)}]
column_class(size) == {Alphabet[i] : i \in 1 .. size + 1}

\* the character class [1-{size + 1}]: the range from "1" to the first
\* digit of size + 1, and the digits after it taken one by one
line_class(size) ==
    LET str_board_max_line == format_int(size + 1) IN
    {Digits[i] : i \in 2 .. digit_value(str_board_max_line[1]) + 1}
    \cup {str_board_max_line[i] : i \in 2 .. Len(str_board_max_line)}

\* the number of characters play_regex matches at position p (0: no match)
play_regex(size, line, p) ==
    IF /\ p + 1 <= Len(line)
       /\ line[p] \in column_class(size)
       /\ line[p + 1] \in line_class(size)
    THEN 2
    ELSE IF slice(line, p, p + 3) = empty_move_str THEN 4 ELSE 0

\* line_regex.match(line): the groups 1, 2 and 6 of a match at the start
\* of the line; group 6 is <<>> for None
line_regex(size, line) ==
    LET n == CHOOSE i \in 0 .. Len(line) :
                 /\ \A j \in 1 .. i : is_digit(line[j])
                 /\ i = Len(line) \/ ~is_digit(line[i + 1])
        p == n + 5
        black_len == play_regex(size, line, p)
        q == p + black_len
        white_len == IF slice(line, q, q + 2) = <<" ", "O", " ">>
                     THEN play_regex(size, line, q + 3) ELSE 0
    IN IF n = 0 \/ slice(line, n + 1, n + 4) # <<".", " ", "X", " ">> \/ black_len = 0
       THEN [matched |-> FALSE]
       ELSE [matched |-> TRUE,
             group1 |-> SubSeq(line, 1, n),
             group2 |-> SubSeq(line, p, q - 1),
             group6 |-> IF white_len = 0 THEN <<>>
                        ELSE SubSeq(line, q + 3, q + 2 + white_len)]

\* BoardParser.__parse_move
parse_move(move) ==
    IF move = empty_move_str THEN <<0 - 1, 0 - 1>>
    ELSE <<ord_from_a(move[1]), int_of_digits(Tail(move)) - 1>>

\* board.play of a parsed move inside the try of __parse_history_turn
parse_history_play(b, move_str) ==
    One({[b |-> r.b,
          raised |-> IF r.raised = "IllegalMoveException"
                     THEN "BoardParserException" ELSE r.raised] :
           r \in {play(b, parse_move(move_str)[1], parse_move(move_str)[2])}})

\* BoardParser.__parse_history_turn
parse_history_turn(b, size, line) ==
    LET matches == line_regex(size, line) IN
    IF ~matches.matched THEN [b |-> b, raised |-> "BoardParserException"]
    ELSE IF int_of_digits(matches.group1) # get_turn_id(b)
    THEN [b |-> b, raised |-> "BoardParserException"]
    ELSE One({IF black.raised # "none" \/ matches.group6 = <<>> THEN black
              ELSE parse_history_play(black.b, matches.group6) :
                black \in {parse_history_play(b, matches.group2)}})

RECURSIVE parse_history_loop(_, _, _, _)
parse_history_loop(computed, size, buffer, y) ==
    IF y > Len(buffer) \/ computed.raised # "none" THEN computed
    ELSE One({parse_history_loop(next, size, buffer, y + 1) :
                next \in {IF read_line(buffer[y]) = <<>> THEN computed
                          ELSE parse_history_turn(computed.b, size,
                                                  read_line(buffer[y]))}})

\* BoardParser.__parse_history on the lines of a history section: the turns
\* are played on a new board of the size (a section of no turn keeps the board
\* of the grid, which is the new board when no move was played)
parse_history(size, raw_save) ==
    parse_history_loop([b |-> NewBoard, raised |-> "none"], size, split(raw_save), 1)

\* a game of two automatic passes: Black passes after the 10th and the 11th move
OpeningTwoPasses ==
    << <<1,2>>, <<1,1>>, <<3,4>>, <<0,2>>, <<0,1>>, <<0,0>>, <<1,0>>, <<2,1>>,
       <<2,0>>, <<3,0>>, <<0,3>> >>

\* the games a save is taken of: the first moves of three games
HistoryInit ==
    /\ board \in {Replay(NewBoard, slice(o, 1, k)) :
                    o \in {OpeningPass, OpeningWipeOut, OpeningTwoPasses},
                    k \in 0 .. Len(OpeningTwoPasses)}
    /\ call = [op |-> "init"]
    /\ raised = "none"
    /\ result = "None"
    /\ steps = 0
    /\ controller = "None"
    /\ stack = <<>>

\* the transcript of the game is written
ExportHistory ==
    /\ raised = "none"
    /\ call.op \in {"init", "play"}
    /\ result' = export_history(board)
    /\ call' = [op |-> "export_history"]
    /\ UNCHANGED <<board, raised, steps>>
    /\ UNCHANGED <<controller, stack>>

\* the transcript is loaded: result is the board the loader computed and the
\* exception it raised
ParseHistory ==
    /\ call.op = "export_history"
    /\ result' = parse_history(Size, result)
    /\ call' = [op |-> "parse_history", raw_save |-> result]
    /\ UNCHANGED <<board, raised, steps>>
    /\ UNCHANGED <<controller, stack>>

\* the game goes on with plays of squares of the board
HistoryNext ==
    \/ \E x \in 0 .. Size - 1, y \in 0 .. Size - 1 : Play(x, y)
    \/ ExportHistory
    \/ ParseHistory

SpecHistory == HistoryInit /\ [][HistoryNext]_vars

\* C29: loading the transcript export_history() wrote of a game played from
\* the initial position succeeds and rebuilds the black discs, the white discs
\* and the player to move of the exported board.
C29_TranscriptReplays ==
    [][call'.op = "parse_history" =>
         /\ result'.raised = "none"
         /\ result'.b.black = board.black
         /\ result'.b.white = board.white
         /\ result'.b.current_player = board.current_player]_vars

\* a transcript with one pass entry is loaded and rebuilds the board
C29_WitnessOnePass ==
    /\ call.op = "parse_history"
    /\ \E i \in 1 .. Len(board.history) :
           board.history[i][3] = 0 - 1 /\ board.history[i][4] = 0 - 1
    /\ result.raised = "none"
    /\ result.b.black = board.black
    /\ result.b.white = board.white
    /\ result.b.current_player = board.current_player

----------------------------------------------------------------------------
(* GameController: the game-over flag of the controller above the board *)

\* GameController.__init__(board, black_player, white_player, blitz_mode): the
\* fields play and restart read and write; winner is annotated, not assigned
GameController(blitz_mode) ==
    [is_game_over |-> FALSE, game_over_message |-> "", winner |-> "unset",
     blitz |-> IF blitz_mode THEN "BlitzTimer" ELSE "None"]

\* GameController._check_for_blitz_game_over; time_up is the player whose
\* clock has run out according to blitz.is_time_up ("none": neither)
check_for_blitz_game_over(c, time_up) ==
    IF c.blitz # "None"
    THEN IF time_up = "black"
         THEN [c EXCEPT !.is_game_over = TRUE, !.winner = WHITE,
                        !.game_over_message = "Black's time is up! White wins!"]
         ELSE IF time_up = "white"
         THEN [c EXCEPT !.is_game_over = TRUE, !.winner = BLACK,
                        !.game_over_message = "White's time is up! Black wins!"]
         ELSE c
    ELSE c

\* the end of GameController.play when the board's game is over: the flag is
\* set and the winner is the color of more discs
controller_game_over(c, b) ==
    LET black_score == popcount(b.black)
        white_score == popcount(b.white)
    IN IF black_score > white_score
       THEN [c EXCEPT !.is_game_over = TRUE, !.game_over_message = "Black wins!",
                      !.winner = BLACK]
       ELSE IF white_score > black_score
       THEN [c EXCEPT !.is_game_over = TRUE, !.game_over_message = "White wins!",
                      !.winner = WHITE]
       ELSE [c EXCEPT !.is_game_over = TRUE, !.game_over_message = "The game is a tie!",
                      !.winner = "None"]

\* GameController.play: the controller and the board after the call, the
\* exception raised, and whether board.play was called
controller_play(c, b, x_coord, y_coord, time_up) ==
    IF c.is_game_over THEN [c |-> c, b |-> b, raised |-> "none", board_play |-> FALSE]
    ELSE One({
        IF checked.is_game_over
        THEN [c |-> checked, b |-> b, raised |-> "none", board_play |-> FALSE]
        ELSE One({
            IF played.raised # "none"
            THEN [c |-> checked, b |-> played.b, raised |-> played.raised,
                  board_play |-> TRUE]
            ELSE [c |-> IF is_game_over(played.b)
                        THEN controller_game_over(checked, played.b) ELSE checked,
                  b |-> played.b, raised |-> "none", board_play |-> TRUE]
          : played \in {play(b, x_coord, y_coord)}})
      : checked \in {check_for_blitz_game_over(c, time_up)}})

\* GameController.restart: the board is restarted and a blitz game gets a new
\* timer
controller_restart(c, b) ==
    [c |-> IF c.blitz # "None" THEN [c EXCEPT !.blitz = "BlitzTimer"] ELSE c,
     b |-> restart(b)]

\* the second short game played to its end: Black wipes White out
WipeOutGame == OpeningWipeOut \o << <<2,4>>, <<2,5>> >>

\* a controller is built on a board on which the first moves of a game were
\* played
ControllerInit ==
    /\ board \in {Replay(NewBoard, SubSeq(WipeOutGame, 1, k)) :
                    k \in 0 .. Len(WipeOutGame) - 1}
    /\ controller \in {GameController(blitz_mode) : blitz_mode \in BOOLEAN}
    /\ call = [op |-> "init"]
    /\ raised = "none"
    /\ result = "None"
    /\ steps = 0
    /\ stack = <<>>

ControllerPlay(x, y, time_up) ==
    /\ Running
    /\ controller.blitz = "None" => time_up = "none"
    /\ \E r \in {controller_play(controller, board, x, y, time_up)} :
           /\ controller' = r.c
           /\ board' = r.b
           /\ raised' = r.raised
           /\ call' = [op |-> "play", x |-> x, y |-> y, time_up |-> time_up,
                       board_play |-> r.board_play]
    /\ result' = "None"
    /\ steps' = steps + 1
    /\ UNCHANGED stack

ControllerRestart ==
    /\ Running
    /\ \E r \in {controller_restart(controller, board)} :
           /\ controller' = r.c
           /\ board' = r.b
    /\ raised' = "none"
    /\ call' = [op |-> "restart", was_over |-> controller.is_game_over]
    /\ result' = "None"
    /\ steps' = steps + 1
    /\ UNCHANGED stack

ControllerNext ==
    \/ \E x \in 0 .. Size - 1, y \in 0 .. Size - 1, time_up \in {"none", "black", "white"} :
          ControllerPlay(x, y, time_up)
    \/ ControllerRestart

SpecController == ControllerInit /\ [][ControllerNext]_vars

\* C30: after restart() was called on a controller whose game had ended
\* (is_game_over true), a play() of a legal opening move whose clock has not
\* run out calls board.play: the move reaches the board.
C30_RestartReopensPlay ==
    [][(/\ call.op = "restart"
        /\ call.was_over
        /\ call'.op = "play"
        /\ (board.black \cup board.white) = (init_black \cup init_white)
        /\ InLegalMask(board, call'.x, call'.y)
        /\ call'.time_up = "none")
       => call'.board_play]_vars

\* the other outcome: a restart of a game that had not ended is followed by a
\* legal opening move that reaches the board
C30_WitnessGameNotOver ==
    /\ call.op = "play"
    /\ call.board_play
    /\ raised = "none"
    /\ Len(board.history) = 1
    /\ ~controller.is_game_over
    /\ steps >= 2

----------------------------------------------------------------------------
(* The searches run call by call: stack holds one frame per call of minimax,
   alphabeta or find_best_move in progress, the innermost last. A frame is at
   "enter" (the call starts), "loop" (between two passes of its for loop),
   "wait" (inside a pass, its recursive call in progress), "tail" (inside
   `return minimax(...)` of the branch without a legal move) or "return".
   Here result is <<>> until the call has returned v, and then <<v>>. *)

\* the deepest search run call by call
MaxRunDepth == 2

\* a recursive call that keeps the depth of its caller
child_depth_same(depth) == depth

\* the depth argument `depth - 1` of every recursive call
child_depth(depth) == depth - 1

\* the frame of a call that starts
frame(fn, depth, alpha, beta) ==
    [fn |-> fn, depth |-> depth, alpha |-> alpha, beta |-> beta, pc |-> "enter",
     valid_moves |-> <<>>, maximizing |-> FALSE, evaluation |-> 0,
     best_move |-> <<0 - 1, 0 - 1>>, best_score |-> 0, new_board |-> "None"]

top(stk) == stk[Len(stk)]

set_top(stk, f) == [stk EXCEPT ![Len(stk)] = f]

pop_frame(stk) == SubSeq(stk, 1, Len(stk) - 1)

\* the board object the calls below find_best_move work on is new_board, the
\* deep copy on which find_best_move played its move; a search called
\* directly works on the caller's board b
searched(stk, b) ==
    IF Len(stk) > 1 /\ stk[1].fn = "find_best_move" THEN stk[1].new_board ELSE b

\* the frames and the caller's board once the searched board has become nb
put_board(stk, b, nb) ==
    IF stk[1].fn = "find_best_move"
    THEN [stack |-> [stk EXCEPT ![1].new_board = nb], board |-> b]
    ELSE [stack |-> stk, board |-> nb]

\* the step went on
went_on(stk, b) == [stack |-> stk, board |-> b, raised |-> "none", result |-> <<>>]

\* an exception leaves every call in progress; the searched board keeps the
\* moves played on it
unwound(stk, b, nb, exception) ==
    [stack |-> <<>>, board |-> put_board(stk, b, nb).board, raised |-> exception,
     result |-> <<>>]

\* the start of a call, up to its loop, its recursive call or its return
\* (ai_features.py lines 47-57 and 64, 119-129 and 147, 213-227)
enter_step(stk, b, c) ==
    One({
        IF f.fn = "find_best_move"
        THEN IF f.depth = 0 \/ is_game_over(b)
             THEN went_on(set_top(stk, [f EXCEPT !.pc = "return"]), b)
             ELSE went_on(set_top(stk,
                      [f EXCEPT !.pc = "loop", !.valid_moves = valid_moves_of(b),
                                !.best_score = initial_best_score(c.max_player,
                                                                  b.current_player)]), b)
        ELSE IF f.depth = 0 \/ is_game_over(sb)
        THEN One({IF h.raised # "none" THEN unwound(stk, b, sb, h.raised)
                  ELSE went_on(set_top(stk, [f EXCEPT !.pc = "return",
                                                      !.evaluation = h.val]), b)
                  : h \in {heuristic_function(c.heuristic, sb, c.max_player)}})
        ELSE One({IF valid_moves = <<>>
                  THEN went_on(Append(set_top(stk, [f EXCEPT !.pc = "tail"]),
                                      frame("minimax", child_depth(f.depth), NegInf, PosInf)),
                               b)
                  ELSE went_on(set_top(stk,
                           [f EXCEPT !.pc = "loop", !.valid_moves = valid_moves,
                                     !.maximizing = (c.max_player = sb.current_player),
                                     !.evaluation = IF c.max_player = sb.current_player
                                                    THEN NegInf ELSE PosInf]), b)
                  : valid_moves \in {valid_moves_of(sb)}})
      : f \in {top(stk)}, sb \in {searched(stk, b)}})

\* the head of a for loop: the loop is left when no move remains, else the
\* next move is played and the recursive call starts (lines 58-60, 130-134,
\* 229-241)
loop_step(stk, b, c) ==
    One({
        IF f.valid_moves = <<>> THEN went_on(set_top(stk, [f EXCEPT !.pc = "return"]), b)
        ELSE One({
            IF played.raised # "none" THEN unwound(stk, b, played.b, played.raised)
            ELSE One({
                [stack |-> Append(w.stack,
                      IF f.fn = "find_best_move"
                      THEN frame(c.search_algo, child_depth(f.depth), NegInf, PosInf)
                      ELSE frame(f.fn, child_depth(f.depth), f.alpha, f.beta)),
                 board |-> w.board, raised |-> "none", result |-> <<>>]
              : w \in {put_board(set_top(stk, [f EXCEPT !.pc = "wait"]), b, played.b)}})
          : played \in {play(IF f.fn = "find_best_move" THEN b ELSE searched(stk, b),
                             Head(f.valid_moves)[1], Head(f.valid_moves)[2])}})
      : f \in {top(stk)}})

\* the rest of a pass of the loops of minimax and alphabeta once the recursive
\* call has returned val into the frame p: fold, pop, and for alphabeta narrow
\* and test the window (lines 61-62, 68-69, 135-145, 153-162)
fold_step(rest, b, p, val) ==
    One({
        IF popped.raised # "none" THEN unwound(rest, b, popped.b, popped.raised)
        ELSE IF p.fn = "minimax"
        THEN One({went_on(w.stack, w.board)
                  : w \in {put_board(set_top(rest,
                               [p EXCEPT !.pc = "loop", !.evaluation = folded,
                                         !.valid_moves = Tail(p.valid_moves)]),
                               b, popped.b)}})
        ELSE One({
            IF narrowed.raised # "none" THEN unwound(rest, b, popped.b, narrowed.raised)
            ELSE One({went_on(w.stack, w.board)
                  : w \in {put_board(set_top(rest,
                               [p EXCEPT !.evaluation = folded,
                                         !.valid_moves = Tail(p.valid_moves),
                                         !.alpha = IF p.maximizing THEN narrowed.val
                                                   ELSE p.alpha,
                                         !.beta = IF p.maximizing THEN p.beta
                                                  ELSE narrowed.val,
                                         !.pc = IF break_test(
                                                     IF p.maximizing THEN narrowed.val
                                                     ELSE p.alpha,
                                                     IF p.maximizing THEN p.beta
                                                     ELSE narrowed.val)
                                                THEN "return" ELSE "loop"]),
                               b, popped.b)}})
          : narrowed \in {IF p.maximizing THEN py_int(Max(p.alpha, folded))
                          ELSE py_int(Min(p.beta, folded))}})
      : folded \in {IF p.maximizing THEN Max(p.evaluation, val)
                    ELSE Min(p.evaluation, val)},
        popped \in {board_pop(searched(rest, b))}})

\* a call returns: to the caller of the search, or into the frame that called
\* it (lines 53 and 125, 244-246, and fold_step)
return_step(stk, b, c) ==
    One({
        IF rest = <<>>
        THEN [stack |-> <<>>, board |-> b, raised |-> "none", result |-> <<val>>]
        ELSE One({
            IF p.pc = "tail"
            THEN went_on(set_top(rest, [p EXCEPT !.pc = "return", !.evaluation = val]), b)
            ELSE IF p.fn = "find_best_move"
            THEN went_on(set_top(rest,
                     IF better_score(val, p.best_score)
                     THEN [p EXCEPT !.pc = "loop", !.valid_moves = Tail(p.valid_moves),
                                    !.best_score = val,
                                    !.best_move = Head(p.valid_moves)]
                     ELSE [p EXCEPT !.pc = "loop", !.valid_moves = Tail(p.valid_moves)]),
                     b)
            ELSE fold_step(rest, b, p, val)
          : p \in {top(rest)}})
      : rest \in {pop_frame(stk)},
        val \in {IF top(stk).fn = "find_best_move" THEN top(stk).best_move
                 ELSE top(stk).evaluation}})

\* the boards a search is run on: the fixtures, the positions of the first
\* short game with the other color to move, and the end of the third game
RunInit ==
    /\ \/ FixturePosition(board)
       \/ \E k \in 0 .. Len(OpeningPass) :
             LET g == Replay(NewBoard, SubSeq(OpeningPass, 1, k))
             IN board = OthelloBoard(g.black, g.white, Invert(g.current_player))
       \/ EndingPosition(board)
    /\ call = [op |-> "init"]
    /\ raised = "none"
    /\ result = <<>>
    /\ steps = 0
    /\ controller = "None"
    /\ stack = <<>>

\* minimax, alphabeta with the full window, or find_best_move is called
RunCall(fn, depth, max_player, search_algo, heuristic) ==
    /\ call.op = "init"
    /\ stack = <<>>
    /\ stack' = <<frame(fn, depth, NegInf, PosInf)>>
    /\ call' = [op |-> fn, depth |-> depth, max_player |-> max_player,
                search_algo |-> search_algo, heuristic |-> heuristic]
    /\ UNCHANGED <<board, raised, result, steps, controller>>

\* the outcome r of a step becomes the state
RunTo(r) ==
    /\ stack' = r.stack
    /\ board' = r.board
    /\ raised' = r.raised
    /\ result' = r.result
    /\ UNCHANGED <<call, steps, controller>>

RunEnter ==
    /\ stack # <<>>
    /\ top(stack).pc = "enter"
    /\ \E r \in {enter_step(stack, board, call)} : RunTo(r)

RunLoop ==
    /\ stack # <<>>
    /\ top(stack).pc = "loop"
    /\ \E r \in {loop_step(stack, board, call)} : RunTo(r)

RunReturn ==
    /\ stack # <<>>
    /\ top(stack).pc = "return"
    /\ \E r \in {return_step(stack, board, call)} : RunTo(r)

\* the steps of the call in progress
RunStep == RunEnter \/ RunLoop \/ RunReturn

RunNext ==
    \/ \E fn \in {"minimax", "alphabeta"}, depth \in 0 .. MaxRunDepth,
          max_player \in {BLACK, WHITE}, heuristic \in {"coin_parity", "all_in_one"} :
          RunCall(fn, depth, max_player, "None", heuristic)
    \/ \E depth \in 0 .. MaxRunDepth, max_player \in {BLACK, WHITE},
          search_algo \in AlgorithmNames, heuristic \in {"coin_parity", "all_in_one"} :
          RunCall("find_best_move", depth, max_player, search_algo, heuristic)
    \/ RunEnter
    \/ RunLoop
    \/ RunReturn

\* a call in progress keeps running: the search is one sequential computation
\* without a timeout or a cancellation
SpecRun == RunInit /\ [][RunNext]_vars /\ WF_vars(RunStep)

\* the number of passes through the body of the `while True` walk of line_cap
RECURSIVE line_cap_walk_steps(_, _, _, _)
line_cap_walk_steps(direction_ptr, shift_dir, bits_o, bits_p) ==
    LET ptr == shift(direction_ptr, shift_dir) IN
    IF (ptr \cap bits_o) # {}
    THEN 1 + line_cap_walk_steps(ptr, shift_dir, bits_o, bits_p)
    ELSE 1

\* the number of passes through the body of one `while tmp:` loop of
\* shift_along
RECURSIVE along_loop_steps(_, _, _)
along_loop_steps(tmp, d, bits_o) ==
    IF tmp = {} THEN 0
    ELSE 1 + along_loop_steps(bits_o \cap along(tmp, d), d, bits_o)

\* what a call that has returned gave, computed in one piece
search_value(b, c) ==
    IF c.op = "minimax" THEN minimax(b, c.depth, c.max_player, c.heuristic)
    ELSE IF c.op = "alphabeta"
    THEN alphabeta(b, c.depth, NegInf, PosInf, c.max_player, c.heuristic)
    ELSE find_best_move(b, c.depth, c.max_player, c.search_algo, c.heuristic, FALSE)

\* a call run step by step ends as the call computed in one piece: the same
\* value on the same board (find_best_move, which works on a copy: the same
\* exception too)
RunMatchesSearch ==
    (call.op # "init" /\ stack = <<>> /\ (raised = "none" \/ call.op = "find_best_move")) =>
        \E r \in {search_value(board, call)} :
            /\ raised = r.raised
            /\ raised = "none" => (result = <<r.val>> /\ board = r.b)

\* every recursive call in progress has a depth strictly below its caller's,
\* and none below 0
DepthsDecrease ==
    \A i \in 1 .. Len(stack) :
        /\ stack[i].depth >= 0
        /\ i > 1 => stack[i].depth < stack[i - 1].depth

\* on the searched board, each flood-fill loop of line_cap_move, for either
\* player, and each walk of line_cap from the move the loop is about to play
\* (from every square before a call), makes at most Size passes
LoopsWithinSize ==
    \A b \in {IF stack = <<>> THEN board ELSE searched(stack, board)} :
        /\ \A player \in {BLACK, WHITE}, d \in 1 .. 8 :
               along_loop_steps(PlayerBits(b, Invert(player))
                                    \cap along(PlayerBits(b, player), d),
                                d, PlayerBits(b, Invert(player))) <= Size
        /\ \A i \in mask, d \in 1 .. 8 :
               (\/ call.op = "init"
                \/ /\ stack # <<>>
                   /\ top(stack).pc = "loop"
                   /\ top(stack).valid_moves # <<>>
                   /\ i = coords_to_bit_idx(Head(top(stack).valid_moves)[1],
                                            Head(top(stack).valid_moves)[2]))
               => line_cap_walk_steps({i}, Direction[d],
                                      PlayerBits(b, Invert(b.current_player)),
                                      PlayerBits(b, b.current_player)) <= Size

\* C24: every call of minimax, alphabeta and find_best_move with depth >= 0
\* comes to its end on every position; each recursive call in progress, the
\* one of the branch without a legal move included, has a depth strictly below
\* its caller's; the walk of line_cap and the flood-fill loops of line_cap_move
\* make at most Size passes per direction.
C24_SearchTerminates ==
    /\ [](DepthsDecrease /\ LoopsWithinSize)
    /\ (stack # <<>>) ~> (stack = <<>>)

\* a search of the greatest depth, called on a position whose side to move has
\* no legal move although the game is not over, has returned
C24_Witness ==
    /\ call.op \in {"minimax", "alphabeta"}
    /\ call.depth = MaxRunDepth
    /\ stack = <<>>
    /\ raised = "none"
    /\ ~is_game_over(board)
    /\ valid_moves_of(board) = <<>>
    /\ result = <<search_value(board, call).val>>
====
